---- MODULE Spec2Model ----
(***************************************************************************)
(* Model of the chart data-sampling library of the EV battery health       *)
(* tracker (src/lib/data-sampling.ts, held in src/unnamed/part_004):       *)
(* downsampleLTTB and adaptiveSample, applied to bounded inputs.           *)
(*                                                                         *)
(* JavaScript values are tagged records: a number is Num(n), the number    *)
(* NaN is NaN, a string is Str(s), the value undefined is Undefined.       *)
(* An object is the sequence of its own properties in insertion order,     *)
(* each a pair [k |-> name, v |-> value]; an array is a sequence, indexed  *)
(* from 0 through At.                                                      *)
(*                                                                         *)
(* Arithmetic.  Numbers are IEEE doubles and every operation of the code   *)
(* rounds as the engine rounds it: the sums and the averages of a bucket,  *)
(* the products and the differences of a triangle area, the milliseconds   *)
(* of a date.  Indices are computed the same way: FloorMul(i, a, b) is     *)
(* Math.floor(i * (a / b)) with both roundings.                            *)
(***************************************************************************)
EXTENDS Integers, Sequences, FiniteSets, TLC

(***************************************************************************)
(* Bounds of the enumerated inputs.                                        *)
(***************************************************************************)
MaxLen == 5            \* longest enumerated array
MaxY == 1              \* metric values are 0..MaxY
MaxThreshold == 6      \* thresholds are -MaxBelowZero..MaxThreshold
MaxBelowZero == 1

(***************************************************************************)
(* JavaScript values.                                                      *)
(***************************************************************************)
\* A finite number is Num(n) when it is an integer below 2^31 in magnitude,
\* and otherwise the double s * m * 2^e, held as Dbl(s, m, e): s is 1 or
\* -1, e an integer and m an odd natural number of at most 53 bits, written
\* as its digits in base 2^15, the least significant first.
Num(n) == [t |-> "number", n |-> n]
Dbl(s, m, e) == [t |-> "number", s |-> s, m |-> m, e |-> e]
NaN == [t |-> "number", nan |-> TRUE]
Str(s) == [t |-> "string", s |-> s]
Undefined == [t |-> "undefined"]

TypeOf(v) == v.t
IsNaN(v) == v = NaN
IsInt(v) == "n" \in DOMAIN v

RECURSIVE Pow2(_)
Pow2(e) == IF e <= 0 THEN 1 ELSE 2 * Pow2(e - 1)

(***************************************************************************)
(* Natural numbers of any size, as sequences of digits in base 2^15 with   *)
(* no leading zero digit (the last of the sequence); zero is <<>>.         *)
(***************************************************************************)
Base == Pow2(15)

RECURSIVE Trim(_)
Trim(x) ==
  IF Len(x) > 0 /\ x[Len(x)] = 0 THEN Trim(SubSeq(x, 1, Len(x) - 1)) ELSE x

RECURSIVE LimbsOf(_)
LimbsOf(n) == IF n = 0 THEN <<>> ELSE <<n % Base>> \o LimbsOf(n \div Base)

Limb(x, i) == IF i <= Len(x) THEN x[i] ELSE 0

\* x + y
RECURSIVE BAddFrom(_, _, _, _)
BAddFrom(x, y, i, carry) ==
  IF i > Len(x) /\ i > Len(y) THEN (IF carry = 0 THEN <<>> ELSE <<carry>>)
  ELSE <<(Limb(x, i) + Limb(y, i) + carry) % Base>>
         \o BAddFrom(x, y, i + 1, (Limb(x, i) + Limb(y, i) + carry) \div Base)
BAdd(x, y) == Trim(BAddFrom(x, y, 1, 0))

\* x - y for x >= y
RECURSIVE BSubFrom(_, _, _, _)
BSubFrom(x, y, i, borrow) ==
  IF i > Len(x) THEN <<>>
  ELSE IF x[i] - Limb(y, i) - borrow < 0
  THEN <<x[i] - Limb(y, i) - borrow + Base>> \o BSubFrom(x, y, i + 1, 1)
  ELSE <<x[i] - Limb(y, i) - borrow>> \o BSubFrom(x, y, i + 1, 0)
BSub(x, y) == Trim(BSubFrom(x, y, 1, 0))

\* the sign of x - y
RECURSIVE BCmpAt(_, _, _)
BCmpAt(x, y, i) ==
  IF i = 0 THEN 0
  ELSE IF x[i] > y[i] THEN 1
  ELSE IF x[i] < y[i] THEN -1
  ELSE BCmpAt(x, y, i - 1)
BCmp(x, y) ==
  IF Len(x) > Len(y) THEN 1
  ELSE IF Len(x) < Len(y) THEN -1
  ELSE BCmpAt(x, y, Len(x))

\* x * k for a digit k
RECURSIVE BMulSmallFrom(_, _, _, _)
BMulSmallFrom(x, k, i, carry) ==
  IF i > Len(x) THEN (IF carry = 0 THEN <<>> ELSE <<carry>>)
  ELSE <<(x[i] * k + carry) % Base>>
         \o BMulSmallFrom(x, k, i + 1, (x[i] * k + carry) \div Base)
BMulSmall(x, k) == Trim(BMulSmallFrom(x, k, 1, 0))

\* x * y
RECURSIVE BMulFrom(_, _, _)
BMulFrom(x, y, j) ==
  IF j > Len(y) THEN <<>>
  ELSE BAdd(BMulSmall(x, y[j]), <<0>> \o BMulFrom(x, y, j + 1))
BMul(x, y) == Trim(BMulFrom(x, y, 1))

\* the quotient and the remainder of x by k, for 0 < k <= 2^15
RECURSIVE BDivFrom(_, _, _, _, _)
BDivFrom(x, k, i, rem, quot) ==
  IF i = 0 THEN [q |-> Trim(quot), r |-> rem]
  ELSE BDivFrom(x, k, i - 1, (rem * Base + x[i]) % k,
                <<(rem * Base + x[i]) \div k>> \o quot)
BDivSmall(x, k) == BDivFrom(x, k, Len(x), 0, <<>>)

\* the number of bits of x
RECURSIVE BitsOfLimb(_)
BitsOfLimb(l) == IF l = 0 THEN 0 ELSE 1 + BitsOfLimb(l \div 2)
BitLen(x) ==
  IF x = <<>> THEN 0 ELSE 15 * (Len(x) - 1) + BitsOfLimb(x[Len(x)])

\* the powers of two that fit an integer
PowersOfTwo == [k \in 0..30 |-> Pow2(k)]

\* x * 2^k and floor(x / 2^k)
Shl(x, k) ==
  IF x = <<>> THEN <<>>
  ELSE [i \in 1..(k \div 15) |-> 0] \o BMulSmall(x, PowersOfTwo[k % 15])
Shr(x, k) ==
  BDivSmall(SubSeq(x, k \div 15 + 1, Len(x)), PowersOfTwo[k % 15]).q
\* bit k of x, and whether a bit below bit k is set
Bit(x, k) == (Limb(x, k \div 15 + 1) \div PowersOfTwo[k % 15]) % 2
LowNonZero(x, k) ==
  \/ \E i \in 1..(k \div 15) : Limb(x, i) # 0
  \/ Limb(x, k \div 15 + 1) % PowersOfTwo[k % 15] # 0

\* the number of zero bits at the low end of x # 0
RECURSIVE LowZeroLimbs(_, _)
LowZeroLimbs(x, i) == IF x[i] = 0 THEN LowZeroLimbs(x, i + 1) ELSE i - 1
RECURSIVE LowZeroBits(_)
LowZeroBits(l) == IF l % 2 = 0 THEN 1 + LowZeroBits(l \div 2) ELSE 0
TrailingZeros(x) ==
  15 * LowZeroLimbs(x, 1) + LowZeroBits(x[LowZeroLimbs(x, 1) + 1])

\* x as an integer, for x < 2^31
Native(x) == Limb(x, 1) + Base * (Limb(x, 2) + Base * Limb(x, 3))

(***************************************************************************)
(* IEEE 754 double precision, round to nearest, ties to even, for values   *)
(* in the normal range.  A result is computed exactly and rounded once.    *)
(***************************************************************************)
Sign(v) == IF IsInt(v) THEN (IF v.n < 0 THEN -1 ELSE 1) ELSE v.s
Mant(v) == IF IsInt(v) THEN LimbsOf(IF v.n < 0 THEN -v.n ELSE v.n) ELSE v.m
Expo(v) == IF IsInt(v) THEN 0 ELSE v.e

\* s * m * 2^e for odd m of at most 53 bits
CanonOdd(s, m, e) ==
  IF e >= 0 /\ BitLen(m) + e <= 31 THEN Num(s * Native(m) * PowersOfTwo[e])
  ELSE Dbl(s, m, e)
CanonShift(s, m, e, zeros) == CanonOdd(s, Shr(m, zeros), e + zeros)
\* s * m * 2^e for m of at most 53 bits
Canon(s, m, e) ==
  IF m = <<>> THEN Num(0) ELSE CanonShift(s, m, e, TrailingZeros(m))

\* whether m + f, where 0 <= f < 1 and inexact tells that f > 0, rounds
\* upwards when the low drop bits of m are dropped
RoundsUp(m, inexact, drop) ==
  /\ drop > 0
  /\ Bit(m, drop - 1) = 1
  /\ (inexact \/ LowNonZero(m, drop - 1) \/ Bit(m, drop) = 1)
\* the double nearest to s * (m + f) * 2^e; drop is the number of bits of
\* m beyond 53, or 0
RoundDropping(s, m, e, inexact, drop) ==
  Canon(s, BAdd(Shr(m, drop), IF RoundsUp(m, inexact, drop) THEN <<1>> ELSE <<>>),
        e + drop)
Round53(s, m, e, inexact) ==
  RoundDropping(s, m, e, inexact, IF BitLen(m) > 53 THEN BitLen(m) - 53 ELSE 0)

SmallEnough(v, bits) ==
  IsInt(v) /\ -PowersOfTwo[bits] < v.n /\ v.n < PowersOfTwo[bits]

Neg(a) ==
  IF IsNaN(a) THEN NaN
  ELSE IF IsInt(a) THEN Num(-a.n)
  ELSE Dbl(-a.s, a.m, a.e)
Abs(a) ==
  IF IsNaN(a) THEN NaN
  ELSE IF IsInt(a) THEN Num(IF a.n < 0 THEN -a.n ELSE a.n)
  ELSE Dbl(1, a.m, a.e)

\* sa * x * 2^e + sb * y * 2^e
SignedSum(sa, x, sb, y, e) ==
  Round53(IF sa = sb \/ BCmp(x, y) >= 0 THEN sa ELSE sb,
          IF sa = sb THEN BAdd(x, y)
          ELSE IF BCmp(x, y) >= 0 THEN BSub(x, y)
          ELSE BSub(y, x),
          e, FALSE)
AddAligned(a, b, e) ==
  SignedSum(Sign(a), Shl(Mant(a), Expo(a) - e), Sign(b), Shl(Mant(b), Expo(b) - e), e)

\* a + b, a - b, a * b on numbers: NaN is contagious
Add(a, b) ==
  IF IsNaN(a) \/ IsNaN(b) THEN NaN
  ELSE IF SmallEnough(a, 30) /\ SmallEnough(b, 30) THEN Num(a.n + b.n)
  ELSE IF a = Num(0) THEN b
  ELSE IF b = Num(0) THEN a
  ELSE AddAligned(a, b, IF Expo(a) < Expo(b) THEN Expo(a) ELSE Expo(b))
Sub(a, b) == Add(a, Neg(b))
Mul(a, b) ==
  IF IsNaN(a) \/ IsNaN(b) THEN NaN
  ELSE IF SmallEnough(a, 15) /\ SmallEnough(b, 15) THEN Num(a.n * b.n)
  ELSE IF a = Num(0) \/ b = Num(0) THEN Num(0)
  ELSE IF a = Num(1) THEN b
  ELSE IF b = Num(1) THEN a
  ELSE Round53(Sign(a) * Sign(b), BMul(Mant(a), Mant(b)), Expo(a) + Expo(b), FALSE)

\* a / n for a count n below 2^15 (avgX /= avgRangeLength).  A count of 0
\* divides a sum of 0 and 0 / 0 is NaN.  The quotient is taken to 70 bits
\* beyond the point, more than a double holds, and rounded with what
\* remains.
DivRounded(s, qr, e) == Round53(s, qr.q, e, qr.r # 0)
DivCount(a, n) ==
  IF IsNaN(a) \/ n = 0 THEN NaN
  ELSE IF IsInt(a) /\ a.n % n = 0 THEN Num(a.n \div n)
  ELSE DivRounded(Sign(a), BDivSmall(Shl(Mant(a), 70), n), Expo(a) - 70)

\* a / 2, which is a * 0.5
Half(a) ==
  IF IsNaN(a) THEN NaN
  ELSE IF a = Num(0) THEN a
  ELSE Canon(Sign(a), Mant(a), Expo(a) - 1)

\* a > b on numbers: false when either side is NaN
Positive(v) == IF IsInt(v) THEN v.n > 0 ELSE v.s = 1
Gt(a, b) ==
  /\ ~IsNaN(a) /\ ~IsNaN(b)
  /\ IF IsInt(a) /\ IsInt(b) THEN a.n > b.n ELSE Positive(Sub(a, b))

\* ToNumber of a value used as an arithmetic operand.  undefined gives NaN;
\* so does every string of the model, none of which is a numeric literal.
ToNumber(v) == IF TypeOf(v) = "number" THEN v ELSE NaN

(***************************************************************************)
(* Objects and arrays.                                                     *)
(***************************************************************************)
\* key in obj
HasField(obj, key) == \E p \in 1..Len(obj) : obj[p].k = key
\* obj[key]
Get(obj, key) ==
  IF HasField(obj, key)
  THEN obj[CHOOSE p \in 1..Len(obj) : obj[p].k = key].v
  ELSE Undefined
\* 0 <= j < data.length
InRange(data, j) == 0 <= j /\ j < Len(data)
\* data[j], undefined outside the array
At(data, j) == IF InRange(data, j) THEN data[j + 1] ELSE Undefined

(***************************************************************************)
(* new Date(s).getTime() for the ISO-8601 UTC strings of January 1970,     *)
(* "1970-01-DDTHH:MM:SS.mmmZ": the milliseconds since the epoch.  The day  *)
(* is 01..31, the minute and the second 00..59, the hour 00..23, or 24     *)
(* with nothing after it (24:00:00.000, the midnight that ends the day).   *)
(* Any other string of the model is not a date and gives NaN.              *)
(***************************************************************************)
Digits == "0123456789"
CharAt(s, p) == SubSeq(s, p, p)
DigitOf == [c \in {CharAt(Digits, d + 1) : d \in 0..9} |->
              CHOOSE d \in 0..9 : CharAt(Digits, d + 1) = c]
IsDigit(c) == c \in DOMAIN DigitOf
DigitVal(c) == DigitOf[c]
AllDigits(s, ps) == \A p \in ps : IsDigit(CharAt(s, p))
Dec2(s, p) == 10 * DigitVal(CharAt(s, p)) + DigitVal(CharAt(s, p + 1))
Dec3(s, p) == 10 * Dec2(s, p) + DigitVal(CharAt(s, p + 2))

\* minutes * 60000 + ms as a number; the sum passes 2^31 on January 25
\* and is put together in digits: 60000 is 32 * 1875 and 2^15 is 32 * 1024
TimeValueOf(minutes, ms) ==
  Canon(1, Trim(<<(((minutes * 1875) % 1024) * 32 + ms) % Base>>
                  \o LimbsOf((minutes * 1875) \div 1024
                               + (((minutes * 1875) % 1024) * 32 + ms) \div Base)),
        0)

DateGetTime(s) ==
  IF /\ Len(s) = 24
     /\ SubSeq(s, 1, 8) = "1970-01-"
     /\ CharAt(s, 11) = "T" /\ CharAt(s, 14) = ":" /\ CharAt(s, 17) = ":"
     /\ CharAt(s, 20) = "." /\ CharAt(s, 24) = "Z"
     /\ AllDigits(s, {9, 10, 12, 13, 15, 16, 18, 19, 21, 22, 23})
     /\ Dec2(s, 9) \in 1..31
     /\ Dec2(s, 15) < 60 /\ Dec2(s, 18) < 60
     /\ \/ Dec2(s, 12) < 24
        \/ Dec2(s, 12) = 24 /\ SubSeq(s, 15, 23) = "00:00.000"
  THEN TimeValueOf(((Dec2(s, 9) - 1) * 24 + Dec2(s, 12)) * 60 + Dec2(s, 15),
                   Dec2(s, 18) * 1000 + Dec3(s, 21))
  ELSE NaN

\* typeof v === 'string' ? new Date(v).getTime() : v, then used as a number
XValue(v) == IF TypeOf(v) = "string" THEN DateGetTime(v.s) ELSE ToNumber(v)

(***************************************************************************)
(* Math.floor(i * bucketSize) with bucketSize = a / b, in double           *)
(* precision.  The quotient a / b is rounded to 53 bits and the product    *)
(* is rounded again, so the result is one less than the exact floor in     *)
(* some cases where i * a / b is an integer (11 * (15 / 11) is             *)
(* 14.999999999999998).  With k the exact quotient, c and m the binary     *)
(* exponents of a / b and of k, and r the remainder left by rounding the   *)
(* quotient down, the product falls below k exactly when i * r exceeds     *)
(* half a unit in the last place of the doubles below k.                   *)
(***************************************************************************)
\* 2^e mod b by squaring, for b < 2^15
RECURSIVE Pow2Mod(_, _)
Pow2Mod(e, b) ==
  IF e <= 0 THEN 1 % b
  ELSE LET h == Pow2Mod(e \div 2, b) IN
       IF e % 2 = 0 THEN (h * h) % b ELSE (2 * ((h * h) % b)) % b

\* floor(log2(num / den)) for num >= den >= 1
RECURSIVE Log2Floor(_, _, _)
Log2Floor(num, den, c) ==
  IF num >= 2 * den * Pow2(c) THEN Log2Floor(num, den, c + 1) ELSE c

\* -floor(log2(num / den)) for 1 <= num < den
RECURSIVE Log2Below(_, _, _)
Log2Below(num, den, c) ==
  IF num * Pow2(c) < den THEN Log2Below(num, den, c + 1) ELSE c

FloorMul(i, a, b) ==
  LET k == (i * a) \div b IN
  IF a <= 0 \/ b = 1 \/ i = 0 \/ (i * a) % b # 0 THEN k
  ELSE LET s == IF a >= b THEN 52 - Log2Floor(a, b, 0)
                ELSE 52 + Log2Below(a, b, 1)
           r == (a * Pow2Mod(s, b)) % b
           m == Log2Floor(k, 1, 0)
           half == IF k = Pow2(m) THEN 4 ELSE 2
       IN IF r = 0 \/ 2 * r > b THEN k
          ELSE IF half * i * r > b * Pow2(m + s - 52) THEN k - 1 ELSE k

(***************************************************************************)
(* for (const key in obj): the own property names in enumeration order,    *)
(* the array-index names ("0", "7", "12": canonical decimal integers up    *)
(* to 2^32 - 2) first, in ascending numeric order, then the other names    *)
(* in the order the properties were created.                               *)
(***************************************************************************)
\* a < b for canonical decimal integers of any length
KeyLess(a, b) ==
  \/ Len(a) < Len(b)
  \/ /\ Len(a) = Len(b)
     /\ \E p \in 1..Len(a) :
          /\ SubSeq(a, 1, p - 1) = SubSeq(b, 1, p - 1)
          /\ DigitVal(CharAt(a, p)) < DigitVal(CharAt(b, p))

IsIndexKey(key) ==
  /\ Len(key) >= 1
  /\ AllDigits(key, 1..Len(key))
  /\ (Len(key) > 1 => CharAt(key, 1) # "0")
  /\ ~KeyLess("4294967294", key)

\* the names of ps, a set of positions holding index names, ascending
RECURSIVE IndexKeysAscending(_, _)
IndexKeysAscending(obj, ps) ==
  IF ps = {} THEN <<>>
  ELSE LET least == CHOOSE p \in ps : \A q \in ps :
                      ~KeyLess(obj[q].k, obj[p].k)
       IN <<obj[least].k>> \o IndexKeysAscending(obj, ps \ {least})

\* the names of positions from..Len(obj) that are not index names
RECURSIVE NamedKeys(_, _)
NamedKeys(obj, from) ==
  IF from > Len(obj) THEN <<>>
  ELSE IF IsIndexKey(obj[from].k) THEN NamedKeys(obj, from + 1)
  ELSE <<obj[from].k>> \o NamedKeys(obj, from + 1)

ForIn(obj) ==
  IndexKeysAscending(obj, {p \in 1..Len(obj) : IsIndexKey(obj[p].k)})
    \o NamedKeys(obj, 1)

(***************************************************************************)
(* Outcome of a call: the array returned, or the exception thrown.         *)
(* picked lists the input index of every returned element (the returned    *)
(* elements are the input's own objects), sampled the elements, and alias  *)
(* tells that the array returned is the input array itself.                *)
(***************************************************************************)
Returned(data, picked, alias) ==
  [kind |-> "returned", picked |-> picked,
   sampled |-> [p \in 1..Len(picked) |-> At(data, picked[p])],
   alias |-> alias]
Thrown(error) == [kind |-> "thrown", error |-> error]
\* return data
ReturnInput(data) == Returned(data, [p \in 1..Len(data) |-> p - 1], TRUE)

(***************************************************************************)
(* triangleArea(pointA, pointB, pointC):                                   *)
(*   Math.abs((pointA.x - pointC.x) * (pointB.y - pointA.y)                *)
(*          - (pointA.x - pointB.x) * (pointC.y - pointA.y)) / 2           *)
(* with every operation rounded as a double.  sampleData writes the same   *)
(* expression in line and multiplies by 0.5, which is the same number.     *)
(***************************************************************************)
triangleArea(pointA, pointB, pointC) ==
  Half(Abs(Sub(Mul(Sub(pointA.x, pointC.x), Sub(pointB.y, pointA.y)),
               Mul(Sub(pointA.x, pointB.x), Sub(pointC.y, pointA.y)))))

\* the x and y read from data[j] for the keys
PointAt(data, j, xKey, yKey) ==
  [x |-> XValue(Get(At(data, j), xKey)), y |-> ToNumber(Get(At(data, j), yKey))]

\* One pass of the loop over the next bucket:
\* avgX += x; avgY += yVal; avgRangeLength++
Summed(acc, p) ==
  [thrown |-> FALSE, x |-> Add(acc.x, p.x), y |-> Add(acc.y, p.y), d |-> acc.d + 1]
NextBucketStep(data, xKey, yKey, j, acc) ==
  IF acc.thrown \/ ~InRange(data, j) THEN [acc EXCEPT !.thrown = TRUE]
  ELSE Summed(acc, PointAt(data, j, xKey, yKey))

\* for (let j = nextBucketStart; j < nextBucketEnd; j++): the passes j in
\* lo..hi-1 in ascending order, evaluated by halves to keep the nesting of
\* the evaluation shallow; a pass that throws ends the loop
RECURSIVE NextBucketSum(_, _, _, _, _, _)
NextBucketSum(data, xKey, yKey, lo, hi, acc) ==
  IF lo >= hi THEN acc
  ELSE IF hi = lo + 1 THEN NextBucketStep(data, xKey, yKey, lo, acc)
  ELSE LET mid == (lo + hi) \div 2
           left == NextBucketSum(data, xKey, yKey, lo, mid, acc)
       IN IF left.thrown THEN left
          ELSE NextBucketSum(data, xKey, yKey, mid, hi, left)

\* if (avgRangeLength > 0) { avgX /= avgRangeLength; avgY /= avgRangeLength }
AveragePointDivided(sum) ==
  [x |-> DivCount(sum.x, sum.d), y |-> DivCount(sum.y, sum.d)]
AveragePoint(sum) ==
  IF sum.d > 0 THEN [x |-> DivCount(sum.x, sum.d), y |-> DivCount(sum.y, sum.d)]
  ELSE [x |-> sum.x, y |-> sum.y]

\* One pass of the loop over the current bucket:
\* if (area > maxArea) { maxArea = area; maxAreaIndex = j }
LargestTriangleStepLastWins(data, xKey, yKey, j, pointA, pointC, best) ==
  IF best.thrown \/ ~InRange(data, j) THEN [best EXCEPT !.thrown = TRUE]
  ELSE LET area == triangleArea(pointA, PointAt(data, j, xKey, yKey), pointC) IN
       IF ~Gt(best.maxArea, area) /\ ~IsNaN(area)
       THEN [thrown |-> FALSE, maxArea |-> area, maxAreaIndex |-> j]
       ELSE best
Larger(j, area, best) ==
  IF Gt(area, best.maxArea)
  THEN [thrown |-> FALSE, maxArea |-> area, maxAreaIndex |-> j]
  ELSE best
LargestTriangleStep(data, xKey, yKey, j, pointA, pointC, best) ==
  IF best.thrown \/ ~InRange(data, j) THEN [best EXCEPT !.thrown = TRUE]
  ELSE Larger(j, triangleArea(pointA, PointAt(data, j, xKey, yKey), pointC), best)

\* for (let j = bucketStart; j < bucketEnd; j++), by halves as above
RECURSIVE LargestTriangle(_, _, _, _, _, _, _, _)
LargestTriangle(data, xKey, yKey, lo, hi, pointA, pointC, best) ==
  IF lo >= hi THEN best
  ELSE IF hi = lo + 1
  THEN LargestTriangleStep(data, xKey, yKey, lo, pointA, pointC, best)
  ELSE LET mid == (lo + hi) \div 2
           left == LargestTriangle(data, xKey, yKey, lo, mid, pointA, pointC, best)
       IN IF left.thrown THEN left
          ELSE LargestTriangle(data, xKey, yKey, mid, hi, pointA, pointC, left)

\* Math.floor(i * bucketSize) + 1 and Math.floor((i + 1) * bucketSize) + 1
\* with bucketSize = (length - 2) / (threshold - 2)
BucketStartOf(length, threshold, i) == FloorMul(i, length - 2, threshold - 2) + 1
BucketEndOf(length, threshold, i) == FloorMul(i + 1, length - 2, threshold - 2) + 1

\* sampled.push(data[maxAreaIndex]); prevSelectedIndex = maxAreaIndex
Pushed(st, best) ==
  IF best.thrown THEN [st EXCEPT !.thrown = TRUE]
  ELSE [thrown |-> FALSE, prevSelectedIndex |-> best.maxAreaIndex,
        picked |-> Append(st.picked, best.maxAreaIndex)]

\* the second half of a pass, sum being what the loop over the next
\* bucket left
BucketSelect(data, threshold, xKey, yKey, i, st, sum) ==
  IF sum.thrown THEN [st EXCEPT !.thrown = TRUE]
  ELSE Pushed(st, LargestTriangle(data, xKey, yKey,
                                  BucketStartOf(Len(data), threshold, i),
                                  BucketEndOf(Len(data), threshold, i),
                                  PointAt(data, st.prevSelectedIndex, xKey, yKey),
                                  AveragePoint(sum),
                                  [thrown |-> FALSE, maxArea |-> Num(-1),
                                   maxAreaIndex |->
                                     BucketStartOf(Len(data), threshold, i)]))

\* One pass of the loop over the buckets, for bucket i.  st holds
\* prevSelectedIndex and the indices pushed to sampled so far; thrown is
\* set when an element outside the array is dereferenced.
BucketStep(data, threshold, xKey, yKey, i, st) ==
  LET nextBucketStart == BucketStartOf(Len(data), threshold, i + 1)
      end2 == BucketEndOf(Len(data), threshold, i + 1)
      nextBucketEnd == IF end2 < Len(data) THEN end2 ELSE Len(data)
  IN IF st.thrown \/ ~InRange(data, st.prevSelectedIndex)
     THEN [st EXCEPT !.thrown = TRUE]
     ELSE BucketSelect(data, threshold, xKey, yKey, i, st,
                       NextBucketSum(data, xKey, yKey, nextBucketStart, nextBucketEnd,
                                     [thrown |-> FALSE, x |-> Num(0), y |-> Num(0),
                                      d |-> 0]))

\* for (let i = 0; i < threshold - 2; i++): the passes i in lo..hi-1 in
\* ascending order, by halves as above
RECURSIVE BucketLoop(_, _, _, _, _, _, _)
BucketLoop(data, threshold, xKey, yKey, lo, hi, st) ==
  IF lo >= hi THEN st
  ELSE IF hi = lo + 1 THEN BucketStep(data, threshold, xKey, yKey, lo, st)
  ELSE LET mid == (lo + hi) \div 2
           left == BucketLoop(data, threshold, xKey, yKey, lo, mid, st)
       IN IF left.thrown THEN left
          ELSE BucketLoop(data, threshold, xKey, yKey, mid, hi, left)

(***************************************************************************)
(* Key detection.  A key that is not supplied is the empty string (as      *)
(* falsy as undefined).                                                    *)
(***************************************************************************)
NoKey == ""

\* xKey = 'time' in data[0] ? 'time' : 'timestamp'
DetectXKeyTimestampOnly(first) == "timestamp"
DetectXKey(first) == IF HasField(first, "time") THEN "time" ELSE "timestamp"

\* for (const key in data[0]) if (key !== xKey && typeof data[0][key] === 'number')
\* p counts the passes over ForIn(data[0])
RECURSIVE DetectYKey(_, _, _)
DetectYKey(first, xKey, p) ==
  LET keys == ForIn(first) IN
  IF p > Len(keys) THEN NoKey
  ELSE IF keys[p] # xKey /\ TypeOf(Get(first, keys[p])) = "number" THEN keys[p]
  ELSE DetectYKey(first, xKey, p + 1)

TypeErrorMsg == "TypeError"
YKeyErrorMsg == "Could not determine y-axis key for sampling"

(***************************************************************************)
(* downsampleLTTB(data, threshold, xKey, yKey)                             *)
(***************************************************************************)
\* if (data.length <= threshold) return data
FitsThresholdStrict(data, threshold) == Len(data) < threshold
FitsThreshold(data, threshold) == Len(data) <= threshold

\* threshold = Math.max(3, threshold)
ClampThreshold(threshold) == IF threshold > 3 THEN threshold ELSE 3

\* the bound of for (let i = 0; i < threshold - 2; i++)
BucketCountOneMore(threshold) == threshold - 1
BucketCount(threshold) == threshold - 2

\* the index of sampled.push(data[data.length - 1])
LastIndexPastEnd(data) == Len(data)
LastIndex(data) == Len(data) - 1

\* a sampler that resolves the keys before it looks at the length
downsampleLTTBKeysFirst(data, threshold0, xKey0, yKey0) ==
  LET noFirst == Len(data) = 0
      xKey == IF xKey0 = NoKey /\ ~noFirst THEN DetectXKey(data[1]) ELSE xKey0
      yKey == IF yKey0 # NoKey THEN yKey0
              ELSE IF noFirst THEN NoKey
              ELSE DetectYKey(data[1], xKey, 1)
      threshold == ClampThreshold(threshold0)
      loop == BucketLoop(data, threshold, xKey, yKey, 0, BucketCount(threshold),
                         [thrown |-> FALSE, prevSelectedIndex |-> 0,
                          picked |-> <<0>>])
  IN IF xKey0 = NoKey /\ noFirst THEN Thrown(TypeErrorMsg)
     ELSE IF yKey = NoKey THEN Thrown(YKeyErrorMsg)
     ELSE IF FitsThreshold(data, threshold0) THEN ReturnInput(data)
     ELSE IF loop.thrown THEN Thrown(TypeErrorMsg)
     ELSE Returned(data, Append(loop.picked, LastIndex(data)), FALSE)

\* sampled.push(data[data.length - 1]); return sampled, loop being what
\* the loop over the buckets left
SampledBy(data, loop) ==
  IF loop.thrown THEN Thrown(TypeErrorMsg)
  ELSE Returned(data, Append(loop.picked, LastIndex(data)), FALSE)

\* the sampling path with the keys resolved
SampleWithKeys(data, threshold, xKey, yKey) ==
  IF yKey = NoKey THEN Thrown(YKeyErrorMsg)
  ELSE SampledBy(data, BucketLoop(data, threshold, xKey, yKey, 0,
                                  BucketCount(threshold),
                                  [thrown |-> FALSE, prevSelectedIndex |-> 0,
                                   picked |-> <<0>>]))

\* the sampling path with xKey resolved: yKey is the key passed or the one
\* detected in data[0]
SampleWithX(data, threshold, xKey, yKey0) ==
  SampleWithKeys(data, threshold, xKey,
                 IF yKey0 # NoKey THEN yKey0
                 ELSE IF Len(data) = 0 THEN NoKey
                 ELSE DetectYKey(data[1], xKey, 1))

downsampleLTTB(data, threshold0, xKey0, yKey0) ==
  IF FitsThreshold(data, threshold0) THEN ReturnInput(data)
  ELSE IF xKey0 = NoKey /\ Len(data) = 0 THEN Thrown(TypeErrorMsg)
  ELSE SampleWithX(data, ClampThreshold(threshold0),
                   IF xKey0 = NoKey THEN DetectXKey(data[1]) ELSE xKey0, yKey0)

(***************************************************************************)
(* adaptiveSample(data, config, xKey, yKey).  config is a partial          *)
(* SamplingConfig: a function on the names of the fields it supplies.      *)
(***************************************************************************)
DEFAULT_SAMPLING_CONFIG == [threshold |-> 500, targetPoints |-> 300]

\* { ...base, ...over }
SpreadBaseWins(base, over) ==
  [f \in DOMAIN base \cup DOMAIN over |->
     IF f \in DOMAIN base THEN base[f] ELSE over[f]]
Spread(base, over) ==
  [f \in DOMAIN base \cup DOMAIN over |->
     IF f \in DOMAIN over THEN over[f] ELSE base[f]]

\* if (data.length <= threshold) return data
BelowSamplingStrict(data, threshold) == Len(data) < threshold
BelowSampling(data, threshold) == Len(data) <= threshold

adaptiveSample(data, config, xKey, yKey) ==
  LET merged == Spread(DEFAULT_SAMPLING_CONFIG, config)
      threshold == merged["threshold"]
      targetPoints == merged["targetPoints"]
  IN IF BelowSampling(data, threshold) THEN ReturnInput(data)
     ELSE downsampleLTTB(data, targetPoints, xKey, yKey)

(***************************************************************************)
(* sampleData(data, threshold = 500): the sampler of BatteryReading[],     *)
(* with the keys timestamp and voltage written into it.  It does not       *)
(* clamp threshold, divides the sums of the next bucket by its length      *)
(* whatever the length is, and starts every bucket with maxAreaPoint = 0.  *)
(***************************************************************************)
SampleDataDefault == 500

\* avgX /= avgRangeLength; avgY /= avgRangeLength (0 / 0 is NaN)
DividedPoint(sum) ==
  [x |-> DivCount(sum.x, sum.d), y |-> DivCount(sum.y, sum.d)]

\* the second half of a pass: a is the index of point a and sum what the
\* loop over the next bucket left
SampleDataSelect(data, threshold, i, st, a, sum) ==
  IF st.thrown \/ sum.thrown \/ ~InRange(data, a) THEN [st EXCEPT !.thrown = TRUE]
  ELSE Pushed(st, LargestTriangle(data, "timestamp", "voltage",
                                  FloorMul(i, Len(data) - 2, threshold - 2) + 1,
                                  FloorMul(i + 1, Len(data) - 2, threshold - 2) + 1,
                                  PointAt(data, a, "timestamp", "voltage"),
                                  DividedPoint(sum),
                                  [thrown |-> FALSE, maxArea |-> Num(-1),
                                   maxAreaIndex |-> 0]))

\* the sums of the next bucket of bucket i
SampleDataSum(data, threshold, i) ==
  LET avgRangeStart == FloorMul(i + 1, Len(data) - 2, threshold - 2) + 1
      end2 == FloorMul(i + 2, Len(data) - 2, threshold - 2) + 1
      avgRangeEnd == IF end2 < Len(data) THEN end2 ELSE Len(data)
  IN NextBucketSum(data, "timestamp", "voltage", avgRangeStart, avgRangeEnd,
                   [thrown |-> FALSE, x |-> Num(0), y |-> Num(0), d |-> 0])

\* a pass that measures every triangle from the first reading
SampleDataStepFromFirst(data, threshold, i, st) ==
  SampleDataSelect(data, threshold, i, st, 0, SampleDataSum(data, threshold, i))

\* One pass of the loop over the buckets, for bucket i.  st holds a and
\* the indices pushed to sampled so far.
SampleDataStep(data, threshold, i, st) ==
  SampleDataSelect(data, threshold, i, st, st.prevSelectedIndex,
                   SampleDataSum(data, threshold, i))

\* for (let i = 0; i < threshold - 2; i++), by halves
RECURSIVE SampleDataLoop(_, _, _, _, _)
SampleDataLoop(data, threshold, lo, hi, st) ==
  IF lo >= hi THEN st
  ELSE IF hi = lo + 1 THEN SampleDataStep(data, threshold, lo, st)
  ELSE LET mid == (lo + hi) \div 2
           left == SampleDataLoop(data, threshold, lo, mid, st)
       IN IF left.thrown THEN left
          ELSE SampleDataLoop(data, threshold, mid, hi, left)

sampleData(data, threshold) ==
  IF Len(data) <= threshold THEN ReturnInput(data)
  ELSE SampledBy(data, SampleDataLoop(data, threshold, 0, threshold - 2,
                                      [thrown |-> FALSE, prevSelectedIndex |-> 0,
                                       picked |-> <<0>>]))

(***************************************************************************)
(* shouldShowDots(dataLength)                                              *)
(***************************************************************************)
DotsLimit == 100
shouldShowDotsStrict(dataLength) == dataLength < DotsLimit
shouldShowDots(dataLength) == dataLength <= DotsLimit

(***************************************************************************)
(* The input array after a call.  The samplers read data[j][xKey] into     *)
(* the local constant x (pointX, pointAX in sampleData) and assign to no   *)
(* element of data and to no field of a record: a record passed through    *)
(* the coercion is the record as it was.                                   *)
(***************************************************************************)
CoercedRecordWritten(record, xKey) ==
  [p \in 1..Len(record) |->
     IF record[p].k = xKey /\ TypeOf(record[p].v) = "string"
     THEN [k |-> xKey, v |-> XValue(record[p].v)]
     ELSE record[p]]
CoercedRecord(record, xKey) == record

\* xKey0 is the key passed; outcome is what the call returned or threw
InputAfter(data, xKey0, outcome) ==
  IF outcome.kind = "returned" /\ ~outcome.alias /\ Len(data) > 0
  THEN LET xKey == IF xKey0 = NoKey THEN DetectXKey(data[1]) ELSE xKey0
       IN [p \in 1..Len(data) |-> CoercedRecord(data[p], xKey)]
  ELSE data

(***************************************************************************)
(* Inputs.  Arrays of up to MaxLen records of one shape, in ascending x,   *)
(* with every choice of metric values in 0..MaxY, and two long arrays at   *)
(* the default threshold of adaptiveSample, which are also sampled with    *)
(* the default sizes as thresholds.                                        *)
(***************************************************************************)
\* the ISO string of ms milliseconds after the epoch, ms < 2^31
Dig(d) == CharAt(Digits, d + 1)
TwoDigits(n) == Dig((n \div 10) % 10) \o Dig(n % 10)
IsoString(ms) ==
  "1970-01-" \o TwoDigits(ms \div 86400000 + 1)
    \o "T" \o TwoDigits((ms \div 3600000) % 24)
    \o ":" \o TwoDigits((ms \div 60000) % 60)
    \o ":" \o TwoDigits((ms \div 1000) % 60)
    \o "." \o Dig((ms \div 100) % 10) \o TwoDigits(ms % 100)
    \o "Z"

\* { time: i, value: y }
TimeValue(i, y) == << [k |-> "time", v |-> Num(i)], [k |-> "value", v |-> Num(y)] >>
\* BatteryReading { timestamp, voltage, temperature }
Reading(i, y) ==
  << [k |-> "timestamp", v |-> Str(IsoString(i))],
     [k |-> "voltage", v |-> Num(y)],
     [k |-> "temperature", v |-> Num(20 + i)] >>
\* { value: y }: a metric and no x field
ValueOnly(i, y) == << [k |-> "value", v |-> Num(y)] >>
\* { label: 'n/a' }: no x field and no numeric field
LabelOnly(i, y) == << [k |-> "label", v |-> Str("n/a")] >>
\* { time: i, value: y, 7: y or 0 }: a second metric under an index name,
\* equal to the first in the records of even i and 0 in the others
Indexed(i, y) ==
  << [k |-> "time", v |-> Num(i)], [k |-> "value", v |-> Num(y)],
     [k |-> "7", v |-> Num(IF i % 2 = 0 THEN y ELSE 0)] >>

Shapes == {"TimeValue", "Reading", "ValueOnly", "LabelOnly", "Indexed"}
Record(shape, i, y) ==
  CASE shape = "TimeValue" -> TimeValue(i, y)
    [] shape = "Reading" -> Reading(i, y)
    [] shape = "ValueOnly" -> ValueOnly(i, y)
    [] shape = "LabelOnly" -> LabelOnly(i, y)
    [] shape = "Indexed" -> Indexed(i, y)

\* the metric values of the arrays of a shape
ValuesOf(shape) ==
  IF shape = "TimeValue" THEN 0..MaxY
  ELSE IF shape \in {"Reading", "Indexed"} THEN {0, 1}
  ELSE {0}
SmallData ==
  UNION { { [p \in 1..n |-> Record(shape, p, ys[p])] :
              ys \in [1..n -> ValuesOf(shape)] } :
          n \in 0..MaxLen, shape \in Shapes }

LargeLens == {DEFAULT_SAMPLING_CONFIG.threshold, DEFAULT_SAMPLING_CONFIG.threshold + 1}
LargeData ==
  { [p \in 1..n |-> TimeValue(p, ((p * p) \div 3) % (MaxY + 1))] : n \in LargeLens }

\* readings one more than the chart's limit of 500
LargeReadings ==
  { [p \in 1..n |-> Reading(p, ((p * p) \div 3) % (MaxY + 1))] :
      n \in {SampleDataDefault + 1} }

\* a length and a threshold whose bucket width (17 - 2) / (13 - 2) is not
\* a double: buckets of one and two records
MidLens == {17}
MidThresholds == {13}
MidData ==
  { [p \in 1..n |-> TimeValue(p, ((p * p) \div 3) % (MaxY + 1))] : n \in MidLens }

\* records whose areas are equal as fractions and differ as doubles: with
\* threshold 5 the next bucket has five members, its average is rounded,
\* and the two largest areas of a bucket come out as 2.4000000000000004
\* and 2.4
RoundedValues == <<0, 1, 0, 0, 0, 0, 1, 1, 0, 1, 0, 1, 0, 0, 0, 0, 0>>
RoundedData == { [p \in 1..Len(RoundedValues) |-> TimeValue(p, RoundedValues[p])] }

\* readings of the evening of January 25, whose times are past 2^31 ms
\* when two of them are added
LateStart == 24 * 24 * 3600000
LateReadings ==
  { [p \in 1..n |->
       << [k |-> "timestamp", v |-> Str(IsoString(LateStart + 1000 * p))],
          [k |-> "voltage", v |-> Num(ys[p])],
          [k |-> "temperature", v |-> Num(20 + p)] >>] :
      n \in {MaxLen - 1}, ys \in {[p \in 1..(MaxLen - 1) |-> IF p = 3 THEN 1 ELSE 0]} }

Thresholds == (0 - MaxBelowZero)..MaxThreshold
\* the long arrays are also sampled to the default sizes; the long array
\* of readings, whose timestamps are parsed, to these and to 3 only
ThresholdsFor(d) ==
  IF d \in LargeReadings
  THEN {3, DEFAULT_SAMPLING_CONFIG.targetPoints, DEFAULT_SAMPLING_CONFIG.threshold}
  ELSE IF Len(d) \in LargeLens
  THEN {0 - MaxBelowZero, 3, MaxThreshold, DEFAULT_SAMPLING_CONFIG.targetPoints,
        DEFAULT_SAMPLING_CONFIG.threshold}
  ELSE IF Len(d) \in MidLens THEN Thresholds \cup MidThresholds
  ELSE Thresholds

\* BatteryReading[]: every record has a string timestamp and a numeric
\* voltage and temperature
IsReading(record) ==
  /\ TypeOf(Get(record, "timestamp")) = "string"
  /\ TypeOf(Get(record, "voltage")) = "number"
  /\ TypeOf(Get(record, "temperature")) = "number"
IsReadings(d) == {p \in 1..Len(d) : ~IsReading(d[p])} = {}

\* the lengths shouldShowDots is asked about, besides the length of data
DotLengths == {0, DotsLimit - 1, DotsLimit, DotsLimit + 1}
\* the pairs of keys passed to downsampleLTTB: none, both, one of the two
KeyPairs ==
  {<<NoKey, NoKey>>, <<"time", "value">>, <<"timestamp", "voltage">>,
   <<NoKey, "value">>, <<"time", NoKey>>}
\* the long arrays are passed no keys or the keys of a reading
KeyPairsFor(d) ==
  IF Len(d) \in LargeLens THEN {<<NoKey, NoKey>>, <<"timestamp", "voltage">>}
  ELSE KeyPairs
\* the partial configurations, and the key pairs passed with them
Configs ==
  UNION { [fields -> 2..MaxLen] :
          fields \in SUBSET {"threshold", "targetPoints"} }
AdaptiveKeys == {<<NoKey, NoKey>>, <<"timestamp", "voltage">>}
\* the long arrays are passed the configurations that leave a default
ConfigsFor(d) ==
  IF Len(d) > MaxLen
  THEN {c \in Configs : DOMAIN c # {"threshold", "targetPoints"}}
  ELSE Configs

(***************************************************************************)
(* The application (src/App.tsx, AnalysisPanel.tsx, BatteryCharts.tsx and  *)
(* the BatteryCharts of part_006, battery-analysis.ts in part_004,         *)
(* pdf-export.ts).                                                         *)
(*                                                                         *)
(* Arrays of readings are held by reference, as in the program: an array   *)
(* is named by the uploaded file parseCSV built it from, [file |-> f,      *)
(* sampled |-> FALSE], and the array sampleData builds from it by          *)
(* [file |-> f, sampled |-> TRUE]; ReadingsOf gives the elements.  The     *)
(* empty array [] is the array of the file NoFile.                         *)
(***************************************************************************)
NoFile == "none"
Files == {"a", "dense", "large"}
\* the files uploaded while the application runs; the dense one is met as
\* the stored readings the application mounts with
UploadedFiles == {"a", "large"}

\* what parseCSV returned for each file, by the name of the file: readings
\* in ascending time
LargeFile == LET d == CHOOSE d \in LargeReadings : TRUE IN SubSeq(d, 1, Len(d))
\* one reading more than the charts draw with dots, fewer than they sample
DenseReadings ==
  { [p \in 1..n |-> Reading(p, p % (MaxY + 1))] : n \in {DotsLimit + 1} }
DenseFile == LET d == CHOOSE d \in DenseReadings : TRUE IN SubSeq(d, 1, Len(d))
Parsed ==
  [a |-> <<Reading(1, 1), Reading(2, 0), Reading(3, 1)>>,
   dense |-> DenseFile,
   large |-> LargeFile,
   none |-> <<>>]

Uploaded(file) == [file |-> file, sampled |-> FALSE]
EmptyArray == Uploaded(NoFile)

\* useMemo(() => sampleData(readings, 500), [readings]), per array
ChartLimit == 500
\* what it returns for the readings of each file
ChartSampling == [file \in Files \cup {NoFile} |-> sampleData(Parsed[file], ChartLimit)]

\* the array sampleData(readings, 500) returns: readings itself when they
\* are at most 500, else a new array
SampledRef(readings) ==
  IF ChartSampling[readings.file].alias THEN readings
  ELSE [file |-> readings.file, sampled |-> TRUE]

ReadingsOf(ref) ==
  IF ref.sampled THEN ChartSampling[ref.file].sampled ELSE Parsed[ref.file]
LengthOf(ref) == Len(ReadingsOf(ref))

(***************************************************************************)
(* calculateBasicStats(readings).                                          *)
(***************************************************************************)
\* readings.map(r => r[key]).reduce((sum, v) => sum + v, sum) over the
\* readings at lo..hi, added to sum one by one from lo upwards: the first
\* half of the positions, then the second; a sum that is NaN stays NaN
RECURSIVE SumField(_, _, _, _, _)
SumField(readings, key, lo, hi, sum) ==
  IF IsNaN(sum) \/ lo > hi THEN sum
  ELSE IF lo = hi THEN Add(sum, ToNumber(Get(readings[lo], key)))
  ELSE SumField(readings, key, (lo + hi) \div 2 + 1, hi,
                SumField(readings, key, lo, (lo + hi) \div 2, sum))

\* values.reduce((sum, v) => sum + v, 0) / values.length
AverageField(readings, key) ==
  DivCount(SumField(readings, key, 1, Len(readings), Num(0)), Len(readings))

\* { min: Math.min(...values), max: Math.max(...values) }
RangeOfField(readings, key) ==
  LET values == {ToNumber(Get(readings[p], key)) : p \in 1..Len(readings)}
  IN IF NaN \in values THEN [min |-> NaN, max |-> NaN]
     ELSE [min |-> CHOOSE v \in values : \A w \in values : ~Gt(v, w),
           max |-> CHOOSE v \in values : \A w \in values : ~Gt(w, v)]

\* Math.round(ms / unit) for integers: the nearest integer, halves upwards
RoundDiv(ms, unit) == ms \div unit + (IF 2 * (ms % unit) >= unit THEN 1 ELSE 0)
\* floor(x / u) + q for x < u * 2^(k + 1), natural numbers in digits
RECURSIVE Quotient(_, _, _, _)
Quotient(x, u, k, q) ==
  IF k < 0 THEN q
  ELSE IF BCmp(x, Shl(u, k)) >= 0
  THEN Quotient(BSub(x, Shl(u, k)), u, k - 1, q + Pow2(k))
  ELSE Quotient(x, u, k - 1, q)
\* Math.round(v / unit) for an integer v of any size
RoundQuot(v, unit) ==
  IF IsInt(v) THEN RoundDiv(v.n, unit)
  ELSE Sign(v) * Quotient(BAdd(Shl(Mant(v), Expo(v) + 1),
                               LimbsOf(IF Sign(v) < 0 THEN unit - 1 ELSE unit)),
                          LimbsOf(2 * unit), Expo(v) + 53, 0)

HourMs == 1000 * 60 * 60

\* timeSpanHours > 24 ? `${Math.round(timeSpanHours / 24)} days`
\*                    : `${Math.round(timeSpanHours)} hours`
TimeSpan(first, last) ==
  LET ms == Sub(XValue(Get(last, "timestamp")), XValue(Get(first, "timestamp")))
  IN IF IsNaN(ms) THEN [count |-> NaN, unit |-> "hours"]
     ELSE IF Gt(ms, Num(24 * HourMs))
     THEN [count |-> Num(RoundQuot(ms, 24 * HourMs)), unit |-> "days"]
     ELSE [count |-> Num(RoundQuot(ms, HourMs)), unit |-> "hours"]

NoStats == [dataPoints |-> 0]
calculateBasicStats(readings) ==
  IF Len(readings) = 0 THEN NoStats
  ELSE [avgVoltage |-> AverageField(readings, "voltage"),
        avgTemperature |-> AverageField(readings, "temperature"),
        voltageRange |-> RangeOfField(readings, "voltage"),
        temperatureRange |-> RangeOfField(readings, "temperature"),
        dataPoints |-> Len(readings),
        timeSpan |-> TimeSpan(readings[1], readings[Len(readings)])]

\* the statistics of each file's readings
BasicStats == [file \in Files \cup {NoFile} |-> calculateBasicStats(Parsed[file])]

(***************************************************************************)
(* generateAIAnalysis(readings).  The call of window.spark.llm either      *)
(* rejects or resolves with a text, and JSON.parse of the text either      *)
(* throws or gives an object; an object gives the analysis, each missing   *)
(* or falsy field replaced by its default.                                 *)
(***************************************************************************)
LlmRejected == [kind |-> "rejected"]
LlmText(text) == [kind |-> "resolved", text |-> text]
FullText == "{\"healthScore\":82,\"summary\":\"Stable\",\"recommendations\":[\"Rotate\"]}"
LlmOutcomes == {LlmRejected, LlmText("Sorry"), LlmText("{}"), LlmText(FullText)}

\* the message of the SyntaxError JSON.parse throws for a short text whose
\* first character starts no JSON value
JsonErrorMsg(text) ==
  "Unexpected token '" \o SubSeq(text, 1, 1) \o "', \"" \o text
    \o "\" is not valid JSON"

\* JSON.parse of the texts above
JsonParse(text) ==
  CASE text = "{}" -> [ok |-> TRUE, healthScore |-> 0, summary |-> "",
                       recommendations |-> <<>>, given |-> {}]
    [] text = FullText -> [ok |-> TRUE, healthScore |-> 82, summary |-> "Stable",
                           recommendations |-> <<"Rotate">>,
                           given |-> {"healthScore", "summary", "recommendations"}]
    [] OTHER -> [ok |-> FALSE, message |-> JsonErrorMsg(text)]

DefaultHealthScore == 75
DefaultSummary == "Battery appears to be operating within normal parameters."
DefaultRecommendations ==
  <<"Monitor voltage stability", "Keep battery cool", "Regular maintenance checks">>

Fulfilled(value) == [kind |-> "fulfilled", value |-> value]
Rejected(message) == [kind |-> "rejected", message |-> message]

\* return { ...stats, healthScore: aiResult.healthScore || 75, ... };
\* source records the array the statistics are of
AnalysisResult(stats, aiResult, readings) ==
  IF ~aiResult.ok THEN Rejected(aiResult.message)
  ELSE Fulfilled(
       [avgVoltage |-> stats.avgVoltage,
        avgTemperature |-> stats.avgTemperature,
        voltageRange |-> stats.voltageRange,
        temperatureRange |-> stats.temperatureRange,
        dataPoints |-> stats.dataPoints,
        timeSpan |-> stats.timeSpan,
        healthScore |-> IF "healthScore" \in aiResult.given /\ aiResult.healthScore # 0
                        THEN aiResult.healthScore ELSE DefaultHealthScore,
        summary |-> IF "summary" \in aiResult.given /\ aiResult.summary # ""
                    THEN aiResult.summary ELSE DefaultSummary,
        recommendations |-> IF "recommendations" \in aiResult.given
                            THEN aiResult.recommendations ELSE DefaultRecommendations,
        source |-> readings])

\* if (!stats) throw ...; const response = await window.spark.llm(...)
AnalysisOf(stats, llm, readings) ==
  IF stats = NoStats THEN Rejected("No valid data to analyze")
  ELSE IF llm.kind = "rejected" THEN Rejected("LLM request failed")
  ELSE AnalysisResult(stats, JsonParse(llm.text), readings)

\* calculateBasicStats(readings), readings being the reference of the array
StatsOf(readings) ==
  IF readings.sampled THEN calculateBasicStats(ReadingsOf(readings))
  ELSE BasicStats[readings.file]

generateAIAnalysis(readings, llm) == AnalysisOf(StatsOf(readings), llm, readings)

(***************************************************************************)
(* generatePDFReport(data): the report saved.  Reading                     *)
(* analysis.healthScore throws when analysis is null, before any row is    *)
(* printed; the table shows the first 15 readings and the number of the    *)
(* others, and date-fns format throws on a timestamp that is not a date.   *)
(***************************************************************************)
\* a null analysis
NoAnalysis == [kind |-> "null"]
PdfRows == 15
\* readings.slice(0, maxRows) and what is printed of analysis
ReportOf(readings, maxRows, analysis, temperatureUnit) ==
  IF analysis = NoAnalysis THEN Thrown(TypeErrorMsg)
  ELSE IF \E p \in 1..maxRows : IsNaN(XValue(Get(readings[p], "timestamp")))
  THEN Thrown("RangeError")
  ELSE [kind |-> "saved", healthScore |-> analysis.healthScore,
        dataPoints |-> analysis.dataPoints,
        rows |-> SubSeq(readings, 1, maxRows),
        more |-> Len(readings) - maxRows,
        temperatureUnit |-> temperatureUnit]

\* Math.min(15, readings.length)
MaxRows(length) == IF length < PdfRows THEN length ELSE PdfRows

generatePDFReport(args) ==
  ReportOf(ReadingsOf(args.readings), MaxRows(LengthOf(args.readings)),
           args.analysis, args.temperatureUnit)

(***************************************************************************)
(* App: what it derives from its state on every render.                    *)
(***************************************************************************)
NoError == ""

\* currentData.length > 0 || (batteryData && batteryData.length > 0)
hasData(current, battery) == LengthOf(current) > 0 \/ LengthOf(battery) > 0
\* currentData.length > 0 ? currentData : (batteryData || [])
displayData(current, battery) == IF LengthOf(current) > 0 THEN current ELSE battery

\* {hasData && currentAnalysis && (<Button onClick={handleExportPDF}>...)}
ExportOffered(current, battery, analysis) ==
  hasData(current, battery) /\ analysis # NoAnalysis

\* the argument of generatePDFReport in handleExportPDF
ExportDataSampled(readings, analysis, unit) ==
  [readings |-> SampledRef(readings), analysis |-> analysis, temperatureUnit |-> unit]
ExportData(readings, analysis, unit) ==
  [readings |-> readings, analysis |-> analysis, temperatureUnit |-> unit]

\* if (!currentAnalysis) { toast.error(...); return }
MayExportAlways(analysis) == TRUE
MayExport(analysis) == analysis # NoAnalysis

NoToast == [kind |-> "none"]
Toast(kind, text) == [kind |-> kind, text |-> text]
NotAvailableMsg ==
  "Analysis not available yet. Please wait for the analysis to complete."

(***************************************************************************)
(* BatteryCharts.  App imports the component of                            *)
(* src/components/BatteryCharts.tsx, which draws every reading it is given *)
(* and a marker on each.  The component of part_006 samples the readings   *)
(* and computes the markers from their number, and then calls              *)
(* convertTemperature, which the file neither defines nor imports: its     *)
(* render throws a ReferenceError before anything is drawn.                *)
(***************************************************************************)
NoChart == [mounted |-> FALSE]
\* chartData = readings.map(...); <LineChart data={chartData}> and
\* dot={{ ... }} on each Line
BatteryCharts(readings) ==
  [mounted |-> TRUE,
   chartData |-> readings,
   points |-> LengthOf(readings),
   showDots |-> TRUE]

\* part_006: useMemo(() => shouldShowDots(readings.length), [readings.length])
ShowDotsOf(readings) == shouldShowDots(LengthOf(readings))
ReferenceErrorMsg == "convertTemperature is not defined"
\* part_006: the render of the component: sampledReadings and showDots are
\* computed, then const optimalTemp = convertTemperature(25) throws
SampledBatteryCharts(readings) ==
  IF ChartSampling[readings.file].kind = "thrown" THEN ChartSampling[readings.file]
  ELSE Thrown(ReferenceErrorMsg)

(***************************************************************************)
(* AnalysisPanel: its state while mounted, and the runs of runAnalysis     *)
(* that have not settled.  A run is live while the panel that started it   *)
(* is mounted; the state setters of a run that is not live do nothing.     *)
(***************************************************************************)
Unmounted == [mounted |-> FALSE]
\* useState(null), useState(true), useState(null)
MountedPanel(readings) ==
  [mounted |-> TRUE, readings |-> readings, analysis |-> NoAnalysis,
   loading |-> TRUE, error |-> NoError]

\* the effect on [readings]: setLoading(true); setError(null)
RunStarted(panel, readings) ==
  [panel EXCEPT !.readings = readings, !.loading = TRUE, !.error = NoError]

\* catch (err) { setError(...) } finally { setLoading(false) }
RunFailed(panel, run, message) ==
  [panel EXCEPT !.error = message, !.loading = FALSE]

\* setAnalysis(result) ... finally { setLoading(false) }
RunSucceeded(panel, run, analysis) ==
  [panel EXCEPT !.analysis = analysis, !.loading = FALSE]

\* what the panel renders
PanelView(panel) ==
  IF ~panel.mounted THEN "none"
  ELSE IF panel.loading THEN "skeleton"
  ELSE IF panel.error # NoError \/ panel.analysis = NoAnalysis THEN "error"
  ELSE "analysis"

MaxInFlight == 2

(***************************************************************************)
(* FileUpload (part_005): its state while mounted and the reads of         *)
(* handleFileRead that have not finished.  A read is live while the        *)
(* FileUpload that started it is mounted; the state setters of a read that *)
(* is not live do nothing.  started counts the calls of handleFileRead.    *)
(***************************************************************************)
MaxReads == 2

NotCsvMsg == "Please select a CSV file"
TooBigMsg == "File size must be less than 10MB"
NoReadingsMsg == "No valid battery readings found in file"

\* the files offered to FileUpload: by what parseCSV makes of the content
\* (NoFile: no valid row), whether the name ends in .csv and whether the
\* size is at most 10MB
Picks ==
  {[file |-> "a", csv |-> TRUE, small |-> TRUE],
   [file |-> NoFile, csv |-> TRUE, small |-> TRUE],
   [file |-> "a", csv |-> FALSE, small |-> TRUE],
   [file |-> "a", csv |-> TRUE, small |-> FALSE]}
\* e.dataTransfer.files of a drop that carries no file
NoPick == [file |-> NoFile, csv |-> FALSE, small |-> FALSE, none |-> TRUE]

\* useState(false), useState(false), useState(0), useState(null)
MountedUpload(reads, started) ==
  [dragOver |-> FALSE, uploading |-> FALSE, progress |-> 0, error |-> NoError,
   reads |-> reads, started |-> started]

\* a read of handleFileRead, at the await it is suspended at
Read(file) == [file |-> file, stage |-> "text", live |-> TRUE]
LiveReads(up) == {i \in 1..Len(up.reads) : up.reads[i].live}

\* handleFileRead(file) up to its first await: setUploading(true);
\* setProgress(0); setError(null); file.text()
handleFileRead(up, file) ==
  [up EXCEPT !.uploading = TRUE, !.progress = 0, !.error = NoError,
             !.reads = Append(up.reads, Read(file)),
             !.started = up.started + 1]

\* handleFileSelect(file)
handleFileSelect(up, pick) ==
  IF ~pick.csv THEN [up EXCEPT !.error = NotCsvMsg]
  ELSE IF ~pick.small THEN [up EXCEPT !.error = TooBigMsg]
  ELSE handleFileRead(up, pick.file)


\* content = await file.text(); setProgress(50); await the 500ms timer
TextRead(up, i) ==
  [up EXCEPT !.progress = IF up.reads[i].live THEN 50 ELSE up.progress,
             !.reads[i].stage = "parse"]

\* finally { setUploading(false); setProgress(0) } of the read at i, after
\* setError(message) when it threw
ReadEnded(up, i, message) ==
  LET others == SubSeq(up.reads, 1, i - 1) \o SubSeq(up.reads, i + 1, Len(up.reads))
  IN IF ~up.reads[i].live THEN [up EXCEPT !.reads = others]
     ELSE [up EXCEPT !.uploading = FALSE, !.progress = 0,
                     !.error = IF message = NoError THEN up.error ELSE message,
                     !.reads = others]

\* readings = parseCSV(content); throw when there are none, else
\* setProgress(100); await the 300ms timer
ContentParsed(up, i) ==
  IF Len(Parsed[up.reads[i].file]) = 0 THEN ReadEnded(up, i, NoReadingsMsg)
  ELSE [up EXCEPT !.progress = IF up.reads[i].live THEN 100 ELSE up.progress,
                  !.reads[i].stage = "deliver"]

\* App renders another FileUpload when hasData changes: the reads of the
\* one that is unmounted go on, and the new one starts from its useState
\* arguments
Remounted(up) ==
  MountedUpload([i \in DOMAIN up.reads |-> [up.reads[i] EXCEPT !.live = FALSE]],
                up.started)

(***************************************************************************)
(* State: the array a caller holds, the call it makes and the outcome.     *)
(***************************************************************************)
VARIABLES input, call, result,            \* a caller of the sampling library
          batteryData, currentData,      \* App: the stored and the current readings
          temperatureUnit, currentAnalysis,
          panel, inflight,               \* AnalysisPanel and its unsettled runs
          chart,                         \* BatteryCharts
          toast, exported,               \* the last toast and the last handleExportPDF
          upload                         \* FileUpload and the reads it started
libVars == <<input, call, result>>
appVars == <<batteryData, currentData, temperatureUnit, currentAnalysis,
             panel, inflight, chart, toast, exported>>
vars == <<input, call, result, batteryData, currentData, temperatureUnit,
          currentAnalysis, panel, inflight, chart, toast, exported, upload>>

NoCall == [op |-> "none"]
NoResult == [kind |-> "none"]
NoExport == [kind |-> "none"]
\* a run of runAnalysis that has not settled, at the await it is suspended
\* at: the 1000ms timer, then the answer of the language model.  latest is
\* history, not a field of the program: the run is the one the last
\* execution of the effect started
Run(readings) ==
  [readings |-> readings, stage |-> "timer", live |-> TRUE, latest |-> TRUE]
\* the runs in flight once the effect has run again
Superseded(runs) == [i \in DOMAIN runs |-> [runs[i] EXCEPT !.latest = FALSE]]
\* the runs in flight once the panel is unmounted
Orphaned(runs) ==
  [i \in DOMAIN runs |-> [runs[i] EXCEPT !.live = FALSE, !.latest = FALSE]]

\* The application as it mounts: useKV gives the persisted readings and
\* unit, the other state starts from its useState argument, and the panel
\* and the charts are rendered, and the first analysis started, when there
\* are readings.
AppMounts(persisted, unit) ==
  /\ batteryData = persisted
  /\ currentData = EmptyArray
  /\ temperatureUnit = unit
  /\ currentAnalysis = NoAnalysis
  /\ panel = IF LengthOf(persisted) > 0 THEN MountedPanel(persisted) ELSE Unmounted
  /\ inflight = IF LengthOf(persisted) > 0 THEN <<Run(persisted)>> ELSE <<>>
  /\ chart = IF LengthOf(persisted) > 0 THEN BatteryCharts(persisted) ELSE NoChart
  /\ toast = NoToast
  /\ exported = NoExport
  /\ upload = MountedUpload(<<>>, 0)

Init ==
  /\ input \in SmallData \cup MidData \cup RoundedData \cup LateReadings
               \cup LargeData \cup LargeReadings
  /\ call = NoCall
  /\ result = NoResult
  /\ AppMounts(EmptyArray, "C")

CallDownsampleLTTB ==
  /\ call = NoCall
  /\ \E threshold \in ThresholdsFor(input), keys \in KeyPairsFor(input) :
       /\ call' = [op |-> "downsampleLTTB", threshold |-> threshold,
                   xKey |-> keys[1], yKey |-> keys[2]]
       /\ result' = downsampleLTTB(input, threshold, keys[1], keys[2])
       /\ input' = InputAfter(input, keys[1], result')
  /\ UNCHANGED appVars
  /\ UNCHANGED upload

CallAdaptiveSample ==
  /\ call = NoCall
  /\ \E config \in ConfigsFor(input), keys \in AdaptiveKeys :
       /\ call' = [op |-> "adaptiveSample", config |-> config,
                   xKey |-> keys[1], yKey |-> keys[2]]
       /\ result' = adaptiveSample(input, config, keys[1], keys[2])
       /\ input' = InputAfter(input, keys[1], result')
  /\ UNCHANGED appVars
  /\ UNCHANGED upload

\* sampleData(data, threshold); a call without threshold is the call with
\* SampleDataDefault
CallSampleData ==
  /\ call = NoCall
  /\ IsReadings(input)
  /\ \E threshold \in ThresholdsFor(input) \cup {SampleDataDefault} :
       /\ call' = [op |-> "sampleData", threshold |-> threshold]
       /\ result' = sampleData(input, threshold)
       /\ input' = InputAfter(input, "timestamp", result')
  /\ UNCHANGED appVars
  /\ UNCHANGED upload

CallShouldShowDots ==
  /\ call = NoCall
  /\ \E dataLength \in DotLengths \cup {Len(input)} :
       /\ call' = [op |-> "shouldShowDots", dataLength |-> dataLength]
       /\ result' = [kind |-> "returned", value |-> shouldShowDots(dataLength)]
  /\ UNCHANGED input
  /\ UNCHANGED appVars
  /\ UNCHANGED upload

Next ==
  \/ CallDownsampleLTTB
  \/ CallAdaptiveSample
  \/ CallSampleData
  \/ CallShouldShowDots

Spec == Init /\ [][Next]_vars

(***************************************************************************)
(* The application: App, AnalysisPanel, BatteryCharts and the PDF export.  *)
(***************************************************************************)
Units == {"C", "F"}

InitApp ==
  /\ input = <<>>
  /\ call = NoCall
  /\ result = NoResult
  /\ \E persisted \in {EmptyArray} \cup {Uploaded(f) : f \in Files}, unit \in Units :
       AppMounts(persisted, unit)

\* handleDataParsed(readings), called by FileUpload with the readings of a
\* file; the array is new, so the charts resample and the panel's effect
\* runs again
DataParsed(readings) ==
  /\ currentData' = readings
  /\ batteryData' = readings
  /\ panel' = IF panel.mounted THEN RunStarted(panel, readings)
                               ELSE MountedPanel(readings)
  /\ inflight' = Append(Superseded(inflight), Run(readings))
  /\ chart' = BatteryCharts(readings)

\* with no readings before, App renders the FileUpload of the header in
\* place of the one of the empty page
HandleDataParsed ==
  /\ Len(inflight) < MaxInFlight
  /\ \E file \in UploadedFiles : DataParsed(Uploaded(file))
  /\ upload' = IF hasData(currentData, batteryData) THEN upload
                ELSE Remounted(upload)
  /\ UNCHANGED <<temperatureUnit, currentAnalysis, toast, exported>>
  /\ UNCHANGED libVars

\* handleReset: the button is rendered when hasData; without readings App
\* renders the FileUpload of the empty page in place of the one of the
\* header
HandleReset ==
  /\ hasData(currentData, batteryData)
  /\ currentData' = EmptyArray
  /\ batteryData' = EmptyArray
  /\ panel' = Unmounted
  /\ inflight' = Orphaned(inflight)
  /\ chart' = NoChart
  /\ upload' = Remounted(upload)
  /\ UNCHANGED <<temperatureUnit, currentAnalysis, toast, exported>>
  /\ UNCHANGED libVars

\* toggleTemperatureUnit: the button is rendered when hasData
ToggleTemperatureUnit ==
  /\ hasData(currentData, batteryData)
  /\ temperatureUnit' = IF temperatureUnit = "C" THEN "F" ELSE "C"
  /\ UNCHANGED <<batteryData, currentData, currentAnalysis, panel, inflight,
                 chart, toast, exported>>
  /\ UNCHANGED libVars
  /\ UNCHANGED upload

\* toast.error(...); return
ExportRefused(offered) ==
  /\ toast' = Toast("error", NotAvailableMsg)
  /\ exported' = [kind |-> "refused", offered |-> offered]

\* try { generatePDFReport(...); toast.success(...) } catch { toast.error(...) }
ExportCalled(offered, readings, args, report) ==
  /\ toast' = IF report.kind = "saved"
              THEN Toast("success", "PDF report downloaded successfully!")
              ELSE Toast("error", "Failed to generate PDF report")
  /\ exported' = [kind |-> "called", offered |-> offered, displayed |-> readings,
                  args |-> args, report |-> report]

ExportWith(offered, readings, args) ==
  ExportCalled(offered, readings, args, generatePDFReport(args))

\* handleExportPDF; exported records whether the button was rendered,
\* whether generatePDFReport was called, and with what
HandleExportPDF ==
  /\ IF ~MayExport(currentAnalysis)
     THEN ExportRefused(ExportOffered(currentData, batteryData, currentAnalysis))
     ELSE ExportWith(ExportOffered(currentData, batteryData, currentAnalysis),
                     displayData(currentData, batteryData),
                     ExportData(displayData(currentData, batteryData),
                                currentAnalysis, temperatureUnit))
  /\ UNCHANGED <<batteryData, currentData, temperatureUnit, currentAnalysis,
                 panel, inflight, chart>>
  /\ UNCHANGED libVars
  /\ UNCHANGED upload

\* what the settling of the run at position i does: setAnalysis(result) and
\* onAnalysisComplete(result), or setError(...), then setLoading(false)
Settled(i, run, outcome) ==
  /\ inflight' = SubSeq(inflight, 1, i - 1) \o SubSeq(inflight, i + 1, Len(inflight))
  /\ IF outcome.kind = "fulfilled"
     THEN /\ panel' = IF run.live THEN RunSucceeded(panel, run, outcome.value)
                                  ELSE panel
          /\ currentAnalysis' = outcome.value
     ELSE /\ panel' = IF run.live THEN RunFailed(panel, run, outcome.message)
                                  ELSE panel
          /\ UNCHANGED currentAnalysis

\* the 1000ms timer of a run fires: generateAIAnalysis(readings) is called,
\* which computes the statistics and, unless there are none, sends the
\* request to the language model.  The timers have the same delay and fire
\* in the order the runs started, which is the order of inflight
AnalysisTimerFires ==
  /\ \E i \in 1..Len(inflight) :
       /\ inflight[i].stage = "timer"
       /\ \A j \in 1..(i - 1) : inflight[j].stage # "timer"
       /\ IF StatsOf(inflight[i].readings) = NoStats
          THEN Settled(i, inflight[i],
                       AnalysisOf(NoStats, LlmRejected, inflight[i].readings))
          ELSE /\ inflight' = [inflight EXCEPT ![i].stage = "llm"]
               /\ UNCHANGED <<panel, currentAnalysis>>
  /\ UNCHANGED <<batteryData, currentData, temperatureUnit, chart, toast, exported>>
  /\ UNCHANGED libVars
  /\ UNCHANGED upload

\* the language model answers a run: generateAIAnalysis(readings) fulfils
\* or rejects according to the answer, and the run settles
AnalysisSettles ==
  /\ \E i \in 1..Len(inflight), llm \in LlmOutcomes :
       /\ inflight[i].stage = "llm"
       /\ Settled(i, inflight[i], generateAIAnalysis(inflight[i].readings, llm))
  /\ UNCHANGED <<batteryData, currentData, temperatureUnit, chart, toast, exported>>
  /\ UNCHANGED libVars
  /\ UNCHANGED upload

NextApp ==
  \/ HandleDataParsed
  \/ HandleReset
  \/ ToggleTemperatureUnit
  \/ HandleExportPDF
  \/ AnalysisTimerFires
  \/ AnalysisSettles

SpecApp == InitApp /\ [][NextApp]_vars

(***************************************************************************)
(* FileUpload in the application: files are selected and dropped, the      *)
(* reads go on one await at a time, and the readings are reset.            *)
(***************************************************************************)
\* onDragOver and onDragLeave of the drop zone
DragOver ==
  /\ upload' = [upload EXCEPT !.dragOver = TRUE]
  /\ UNCHANGED appVars
  /\ UNCHANGED libVars

DragLeave ==
  /\ upload' = [upload EXCEPT !.dragOver = FALSE]
  /\ UNCHANGED appVars
  /\ UNCHANGED libVars

\* handleFileInput: a file chosen in the dialog of the file input, which
\* is rendered, as the button is, with disabled={uploading}
HandleFileInput ==
  /\ ~upload.uploading
  /\ upload.started < MaxReads
  /\ \E pick \in Picks : upload' = handleFileSelect(upload, pick)
  /\ UNCHANGED appVars
  /\ UNCHANGED libVars

\* handleDrop: a drop on the drop zone, with a file or without; onDrop has
\* no condition on uploading
HandleDrop ==
  /\ upload.started < MaxReads
  /\ \E pick \in Picks \cup {NoPick} :
       upload' = IF pick = NoPick THEN [upload EXCEPT !.dragOver = FALSE]
                 ELSE handleFileSelect([upload EXCEPT !.dragOver = FALSE], pick)
  /\ UNCHANGED appVars
  /\ UNCHANGED libVars

\* file.text() of a read resolves
FileTextResolves ==
  /\ \E i \in 1..Len(upload.reads) :
       /\ upload.reads[i].stage = "text"
       /\ upload' = TextRead(upload, i)
  /\ UNCHANGED appVars
  /\ UNCHANGED libVars

\* the 500ms timer of a read fires
ParseTimerFires ==
  /\ \E i \in 1..Len(upload.reads) :
       /\ upload.reads[i].stage = "parse"
       /\ upload' = ContentParsed(upload, i)
  /\ UNCHANGED appVars
  /\ UNCHANGED libVars

\* the 300ms timer of a read fires: onDataParsed(readings), which is
\* handleDataParsed of App, then finally
DeliverTimerFires ==
  /\ \E i \in 1..Len(upload.reads) :
       /\ upload.reads[i].stage = "deliver"
       /\ DataParsed(Uploaded(upload.reads[i].file))
       /\ upload' = IF hasData(currentData, batteryData)
                     THEN ReadEnded(upload, i, NoError)
                     ELSE Remounted(ReadEnded(upload, i, NoError))
  /\ UNCHANGED <<temperatureUnit, currentAnalysis, toast, exported>>
  /\ UNCHANGED libVars

NextUpload ==
  \/ DragOver
  \/ DragLeave
  \/ HandleFileInput
  \/ HandleDrop
  \/ FileTextResolves
  \/ ParseTimerFires
  \/ DeliverTimerFires
  \/ HandleReset

SpecUpload == InitApp /\ [][NextUpload]_vars

(***************************************************************************)
(* Properties of downsampleLTTB and adaptiveSample.                        *)
(***************************************************************************)

\* C1: a call downsampleLTTB(data, t) with len(data) > t >= 3 returns
\* exactly t elements; the only other outcome is the y-key error.
C1_ExactOutputSize ==
  (call.op = "downsampleLTTB" /\ Len(input) > call.threshold /\ call.threshold >= 3)
    => \/ result = Thrown(YKeyErrorMsg)
       \/ result.kind = "returned" /\ Len(result.sampled) = call.threshold

\* a 5-element array sampled to 4 elements
C1_Witness ==
  /\ call.op = "downsampleLTTB" /\ Len(input) = 5 /\ call.threshold = 4
  /\ result.kind = "returned" /\ Len(result.sampled) = 4

\* C2 (as claimed): for every input and threshold the returned elements are
\* the input's elements at strictly increasing indices.
C2_OrderedSubsequence ==
  (call.op = "downsampleLTTB" /\ result.kind = "returned")
    => /\ \A p \in 1..Len(result.picked) :
            /\ InRange(input, result.picked[p])
            /\ result.sampled[p] = At(input, result.picked[p])
       /\ \A p \in 1..(Len(result.picked) - 1) :
            result.picked[p] < result.picked[p + 1]

\* C3 (as claimed): for every input and threshold the returned length is
\* min(len(data), max(3, threshold)) when len(data) > threshold and
\* len(data) otherwise.
C3_OutputLength ==
  (call.op = "downsampleLTTB" /\ result.kind = "returned")
    => Len(result.sampled) =
         IF Len(input) > call.threshold
         THEN LET t == IF call.threshold > 3 THEN call.threshold ELSE 3
              IN IF Len(input) < t THEN Len(input) ELSE t
         ELSE Len(input)

\* C4 (as claimed): a threshold below 3 is never rejected, and the call
\* returns the elements that the same call with threshold 3 returns.
C4_ClampedToThree ==
  (call.op = "downsampleLTTB" /\ call.threshold < 3)
    => /\ result.kind = "returned"
       /\ downsampleLTTB(input, 3, call.xKey, call.yKey).kind = "returned"
       /\ result.picked = downsampleLTTB(input, 3, call.xKey, call.yKey).picked

\* C5: a call downsampleLTTB(data, t) with len(data) <= t returns the input
\* array itself: every element, in order, nothing else.
C5_Passthrough ==
  (call.op = "downsampleLTTB" /\ Len(input) <= call.threshold)
    => /\ result.kind = "returned"
       /\ result.alias
       /\ result.sampled = input
       /\ result.picked = [p \in 1..Len(input) |-> p - 1]

\* a 3-element array returned as it is for threshold 3
C5_Witness ==
  /\ call.op = "downsampleLTTB" /\ Len(input) = 3 /\ call.threshold = 3
  /\ result.kind = "returned" /\ result.sampled = input

\* C6: when downsampleLTTB samples (len(data) > threshold) and returns, the
\* first element returned is data[0] and the last is data[len(data) - 1].
C6_Endpoints ==
  (call.op = "downsampleLTTB" /\ Len(input) > call.threshold
     /\ result.kind = "returned")
    => /\ Len(result.sampled) >= 2
       /\ result.picked[1] = 0
       /\ result.sampled[1] = At(input, 0)
       /\ result.picked[Len(result.picked)] = Len(input) - 1
       /\ result.sampled[Len(result.sampled)] = At(input, Len(input) - 1)

\* a 5-element array sampled to 3 elements whose interior element is neither end
C6_Witness ==
  /\ call.op = "downsampleLTTB" /\ Len(input) = 5 /\ call.threshold = 3
  /\ result.kind = "returned"
  /\ result.picked[1] = 0 /\ result.picked[2] \in 1..3 /\ result.picked[3] = 4

\* C7 (as claimed): on an empty array downsampleLTTB returns the empty
\* input, without an error, for every threshold.
C7_EmptyInput ==
  (call.op = "downsampleLTTB" /\ Len(input) = 0)
    => result.kind = "returned" /\ result.alias /\ result.sampled = <<>>

\* C8 (as claimed): with both fields of the configuration supplied,
\* adaptiveSample returns data unchanged when len(data) = threshold and
\* returns exactly targetPoints elements when len(data) = threshold + 1
\* (stated for the target sizes of 3 and more, which are not clamped).
C8_AdaptiveBoundary ==
  (call.op = "adaptiveSample"
     /\ DOMAIN call.config = {"threshold", "targetPoints"}
     /\ call.config["targetPoints"] >= 3
     /\ result.kind = "returned")
    => /\ Len(input) = call.config["threshold"] => result.alias /\ result.sampled = input
       /\ Len(input) = call.config["threshold"] + 1
            => Len(result.sampled) = call.config["targetPoints"]

\* C8 (amended): adaptiveSample returns data unchanged when len(data) =
\* threshold; when len(data) = threshold + 1 it returns exactly targetPoints
\* elements if 3 <= targetPoints <= threshold (or fails with the y-key
\* error), and returns data unchanged if targetPoints > threshold.
C8_AdaptiveBoundaryAmended ==
  (call.op = "adaptiveSample" /\ DOMAIN call.config = {"threshold", "targetPoints"})
    => LET threshold == call.config["threshold"]
           targetPoints == call.config["targetPoints"]
       IN /\ Len(input) = threshold
               => result.kind = "returned" /\ result.alias /\ result.sampled = input
          /\ (Len(input) = threshold + 1 /\ 3 <= targetPoints /\ targetPoints <= threshold)
               => \/ result = Thrown(YKeyErrorMsg)
                  \/ result.kind = "returned" /\ ~result.alias
                       /\ Len(result.sampled) = targetPoints
          /\ (Len(input) = threshold + 1 /\ targetPoints > threshold)
               => result.kind = "returned" /\ result.alias /\ result.sampled = input

\* five elements, one more than the threshold 4, reduced to targetPoints = 3
C8_Witness ==
  /\ call.op = "adaptiveSample"
  /\ DOMAIN call.config = {"threshold", "targetPoints"}
  /\ call.config["threshold"] = 4 /\ call.config["targetPoints"] = 3
  /\ Len(input) = 5
  /\ result.kind = "returned" /\ Len(result.sampled) = 3

\* C9: adaptiveSample(data, config, xKey, yKey) returns data unchanged when
\* len(data) <= threshold and otherwise what downsampleLTTB(data,
\* targetPoints, xKey, yKey) returns, where threshold is 500 and
\* targetPoints is 300 unless config supplies the field.
C9_AdaptiveDefinition ==
  call.op = "adaptiveSample"
    => LET threshold == IF "threshold" \in DOMAIN call.config
                        THEN call.config["threshold"] ELSE 500
           targetPoints == IF "targetPoints" \in DOMAIN call.config
                           THEN call.config["targetPoints"] ELSE 300
       IN IF Len(input) <= threshold
          THEN result.kind = "returned" /\ result.alias /\ result.sampled = input
          ELSE result = downsampleLTTB(input, targetPoints, call.xKey, call.yKey)

\* 501 elements and an empty configuration: sampled to 300 elements
C9_Witness ==
  /\ call.op = "adaptiveSample" /\ DOMAIN call.config = {}
  /\ Len(input) = 501
  /\ result.kind = "returned" /\ ~result.alias /\ Len(result.sampled) = 300

\* C10 (as claimed): on the sampling path, with no xKey supplied and a first
\* record that has neither a 'time' nor a 'timestamp' field, downsampleLTTB
\* fails instead of returning a sampled array (stated for thresholds of 3
\* and more).
C10_XKeyResolutionError ==
  (call.op = "downsampleLTTB" /\ Len(input) > call.threshold /\ call.threshold >= 3
     /\ call.xKey = NoKey
     /\ ~HasField(input[1], "time") /\ ~HasField(input[1], "timestamp"))
    => result.kind = "thrown"

(***************************************************************************)
(* Key resolution, the chart helpers and the frame of the samplers.        *)
(***************************************************************************)

\* C11: when no yKey is supplied, the y key used on the sampling path is
\* the first field of the first record, in the order the fields were
\* declared, that is not the resolved x key and holds a number: the call
\* gives what the call with that key gives; with no such field, and with
\* no first record, it throws.
C11_FirstDeclaredNumeric ==
  (call.op = "downsampleLTTB" /\ call.yKey = NoKey /\ Len(input) > call.threshold)
    => IF Len(input) = 0 THEN result.kind = "thrown"
       ELSE LET first == input[1]
                xKey == IF call.xKey # NoKey THEN call.xKey
                        ELSE IF HasField(first, "time") THEN "time" ELSE "timestamp"
                declared == {p \in 1..Len(first) :
                               first[p].k # xKey /\ TypeOf(first[p].v) = "number"}
                firstDeclared == CHOOSE p \in declared : \A q \in declared : p <= q
            IN IF declared = {} THEN result.kind = "thrown"
               ELSE result = downsampleLTTB(input, call.threshold, call.xKey,
                                            first[firstDeclared].k)

\* C12: on the sampling path of a non-empty array the x key is the xKey
\* supplied, else 'time' when the first record has that field, else
\* 'timestamp': the call gives what the call with that key gives; records
\* { time, value } with no keys supplied are sampled by 'time' and 'value'
\* and nothing is thrown.
C12_XKeyResolution ==
  (call.op = "downsampleLTTB" /\ Len(input) > call.threshold /\ Len(input) > 0)
    => LET first == input[1]
           xKey == IF call.xKey # NoKey THEN call.xKey
                   ELSE IF HasField(first, "time") THEN "time" ELSE "timestamp"
       IN /\ result = downsampleLTTB(input, call.threshold, xKey, call.yKey)
          /\ (call.xKey = NoKey /\ call.yKey = NoKey
                /\ [p \in 1..Len(first) |-> first[p].k] = <<"time", "value">>)
               => /\ result.kind = "returned"
                  /\ result = downsampleLTTB(input, call.threshold, "time", "value")

\* five { time, value } records sampled to four with no keys supplied, the
\* second bucket represented by its second record
C12_Witness ==
  /\ call.op = "downsampleLTTB" /\ call.xKey = NoKey /\ call.yKey = NoKey
  /\ Len(input) = 5 /\ call.threshold = 4
  /\ [p \in 1..Len(input[1]) |-> input[1][p].k] = <<"time", "value">>
  /\ result.kind = "returned" /\ result.picked = <<0, 1, 3, 4>>

\* C13: shouldShowDots(n) is true exactly when n <= 100.
C13_DotsBoundary ==
  call.op = "shouldShowDots"
    => (result.value <=> call.dataLength <= 100)

\* shouldShowDots(100) has returned true
C13_Witness ==
  call.op = "shouldShowDots" /\ call.dataLength = 100 /\ result.value

\* C14: sampleData(data, threshold) returns at most threshold readings.
C14_AtMostThreshold ==
  (call.op = "sampleData" /\ result.kind = "returned")
    => Len(result.sampled) <= call.threshold

\* C15: no call of downsampleLTTB, adaptiveSample or sampleData changes its
\* input: the array has the same records with the same field values after
\* the call, the string timestamps included.
C15_InputUnchanged == [][input' = input]_vars

\* readings with string timestamps have been sampled (the timestamps were
\* parsed for the areas) and the first one still holds its string
C15_Witness ==
  /\ call.op \in {"downsampleLTTB", "adaptiveSample", "sampleData"}
  /\ result.kind = "returned" /\ ~result.alias
  /\ Len(input) = 5 /\ Len(result.sampled) = 4
  /\ TypeOf(Get(input[1], "timestamp")) = "string"

\* C17 (as claimed): when an analysis fails, the panel falls back to a
\* summary of the statistics of the readings: it never ends in the error
\* view.
C17_FallbackToStatistics == PanelView(panel) # "error"

\* C18: while currentAnalysis is null the Export PDF button is not rendered,
\* and every handleExportPDF invoked so far has only shown the error toast
\* and has not called generatePDFReport; no call of generatePDFReport was
\* ever given a null analysis.
C18_NoReportBeforeAnalysis ==
  /\ currentAnalysis = NoAnalysis =>
       /\ ~ExportOffered(currentData, batteryData, currentAnalysis)
       /\ exported # NoExport =>
            /\ exported.kind = "refused"
            /\ ~exported.offered
            /\ toast = Toast("error", NotAvailableMsg)
  /\ exported.kind = "called" => exported.args.analysis # NoAnalysis

\* readings are displayed, no analysis has completed, and handleExportPDF
\* has been invoked
C18_Witness ==
  /\ hasData(currentData, batteryData)
  /\ currentAnalysis = NoAnalysis
  /\ exported.kind = "refused"
  /\ toast.kind = "error"

\* C19: the stored readings are arrays parseCSV returned, never a sampled
\* array; the panel, every run of the analysis and every report are given
\* the displayed readings in full, and an analysis is computed from all of
\* them; the charts are given the displayed readings too, and the array
\* sampleData builds in the charts of part_006 goes nowhere else.
C19_SamplingOnlyInCharts ==
  LET shown == displayData(currentData, batteryData) IN
  /\ ~batteryData.sampled /\ ~currentData.sampled
  /\ panel.mounted => panel.readings = shown
  /\ \A i \in 1..Len(inflight) : ~inflight[i].readings.sampled
  /\ currentAnalysis # NoAnalysis =>
       /\ ~currentAnalysis.source.sampled
       /\ currentAnalysis.dataPoints = Len(Parsed[currentAnalysis.source.file])
  /\ exported.kind = "called" =>
       /\ exported.args.readings = exported.displayed
       /\ ~exported.args.readings.sampled
       /\ exported.report.kind = "saved" =>
            Len(exported.report.rows) + exported.report.more
              = Len(Parsed[exported.displayed.file])
  /\ chart.mounted => chart.chartData = shown

\* the 501 readings are displayed, sampleData(readings, 500) makes a new
\* array of 500 of them, and a report of all 501 has been saved: 15 rows
\* and 486 more
C19_Witness ==
  /\ displayData(currentData, batteryData) = Uploaded("large")
  /\ chart.mounted /\ chart.points = ChartLimit + 1
  /\ SampledRef(Uploaded("large")).sampled
  /\ LengthOf(SampledRef(Uploaded("large"))) = ChartLimit
  /\ panel.mounted /\ LengthOf(panel.readings) = ChartLimit + 1
  /\ exported.kind = "called"
  /\ exported.displayed = Uploaded("large")
  /\ exported.report.kind = "saved"
  /\ Len(exported.report.rows) = PdfRows
  /\ exported.report.more = ChartLimit + 1 - PdfRows
  /\ currentAnalysis.dataPoints = ChartLimit + 1

\* C20: for len(data) = n > t >= 3 the t - 2 buckets
\* [BucketStartOf(i), BucketEndOf(i)) are non-empty and contiguous, start
\* at index 1 and end at n - 1 (so they cover 1..n-2 once and leave out 0
\* and n - 1), and their sizes differ by at most one.
C20_BucketPartition ==
  (call.op = "downsampleLTTB" /\ Len(input) > call.threshold /\ call.threshold >= 3)
    => LET n == Len(input)
           t == call.threshold
           size(i) == BucketEndOf(n, t, i) - BucketStartOf(n, t, i)
       IN /\ \A i \in 0..(t - 3) : size(i) >= 1
          /\ \A i \in 0..(t - 4) : BucketEndOf(n, t, i) = BucketStartOf(n, t, i + 1)
          /\ BucketStartOf(n, t, 0) = 1
          /\ BucketEndOf(n, t, t - 3) = n - 1
          /\ \E m \in 1..n : \A i \in 0..(t - 3) : size(i) \in {m, m + 1}

(***************************************************************************)
(* Properties of the selection, the index ranges and the two samplers.     *)
(***************************************************************************)

\* C21: on the sampling path with len(data) = n > t >= 3, the element
\* emitted for bucket i is the one at the earliest index j of the bucket
\* whose score is greatest, the score being the area of the triangle of the
\* element emitted before (data[0] for bucket 0), data[j] and the mean of
\* the next bucket; stated for the buckets whose scores are all numbers.
C21_EarliestGreatestArea ==
  (/\ call.op = "downsampleLTTB" /\ result.kind = "returned"
   /\ Len(input) > call.threshold /\ call.threshold >= 3)
    => LET n == Len(input)
           t == call.threshold
           xKey == IF call.xKey = NoKey THEN DetectXKey(input[1]) ELSE call.xKey
           yKey == IF call.yKey = NoKey THEN DetectYKey(input[1], xKey, 1)
                   ELSE call.yKey
           bucket(i) == BucketStartOf(n, t, i)..(BucketEndOf(n, t, i) - 1)
           nextEnd(i) == IF BucketEndOf(n, t, i + 1) < n
                         THEN BucketEndOf(n, t, i + 1) ELSE n
           avg(i) == AveragePoint(
                       NextBucketSum(input, xKey, yKey, BucketStartOf(n, t, i + 1),
                                     nextEnd(i),
                                     [thrown |-> FALSE, x |-> Num(0), y |-> Num(0),
                                      d |-> 0]))
           scores(i, prev, mean) ==
             {<<triangleArea(prev, PointAt(input, j, xKey, yKey), mean), j>> :
                j \in bucket(i)}
       IN \A i \in 0..(t - 3) :
            \A S \in {scores(i, PointAt(input, result.picked[i + 1], xKey, yKey),
                            avg(i))} :
              (\A p \in S : ~IsNaN(p[1]))
                => \E p \in S :
                     /\ \A q \in S : ~Gt(q[1], p[1])
                     /\ \A q \in S : q[1] = p[1] => p[2] <= q[2]
                     /\ result.picked[i + 2] = p[2]

\* five records in buckets of one and two: the two scores of bucket 1 are
\* equal and the earlier index is emitted
C21_Witness ==
  /\ call.op = "downsampleLTTB" /\ result.kind = "returned"
  /\ Len(input) = 5 /\ call.threshold = 4
  /\ \A p \in 1..5 : ToNumber(Get(input[p], "value")) = Num(0)
  /\ HasField(input[1], "time")
  /\ result.picked = <<0, 1, 2, 4>>

\* C22 (as claimed): whenever downsampleLTTB takes the sampling path
\* (len(data) > threshold), the candidates of every bucket, the members of
\* every next bucket and the index selected for every bucket lie in
\* [0, len(data)), and every next-bucket range ends at len(data) at most.
C22_IndicesInRange ==
  (call.op = "downsampleLTTB" /\ ~FitsThreshold(input, call.threshold))
    => LET n == Len(input)
           t == ClampThreshold(call.threshold)
           nextEnd(i) == IF BucketEndOf(n, t, i + 1) < n
                         THEN BucketEndOf(n, t, i + 1) ELSE n
       IN /\ \A i \in 0..(t - 3) :
               /\ \A j \in BucketStartOf(n, t, i)..(BucketEndOf(n, t, i) - 1) :
                    InRange(input, j)
               /\ \A j \in BucketStartOf(n, t, i + 1)..(nextEnd(i) - 1) :
                    InRange(input, j)
               /\ nextEnd(i) <= n
          /\ result.kind = "thrown" => result.error # TypeErrorMsg
          /\ result.kind = "returned" =>
               \A p \in 1..Len(result.picked) : InRange(input, result.picked[p])

\* C23: when downsampleLTTB samples and the next-bucket range of a bucket
\* is empty, the average point used for the bucket is (0, 0): the sums are
\* left undivided and no NaN arises from the empty range.
C23_EmptyNextBucketAverage ==
  (/\ call.op = "downsampleLTTB" /\ ~FitsThreshold(input, call.threshold)
   /\ result.kind = "returned")
    => LET n == Len(input)
           t == ClampThreshold(call.threshold)
           xKey == IF call.xKey = NoKey THEN DetectXKey(input[1]) ELSE call.xKey
           yKey == IF call.yKey = NoKey THEN DetectYKey(input[1], xKey, 1)
                   ELSE call.yKey
           nextStart(i) == BucketStartOf(n, t, i + 1)
           nextEnd(i) == IF BucketEndOf(n, t, i + 1) < n
                         THEN BucketEndOf(n, t, i + 1) ELSE n
           avg(i) == AveragePoint(
                       NextBucketSum(input, xKey, yKey, nextStart(i), nextEnd(i),
                                     [thrown |-> FALSE, x |-> Num(0), y |-> Num(0),
                                      d |-> 0]))
       IN \A i \in 0..(t - 3) :
            nextStart(i) >= nextEnd(i)
              => avg(i).x = Num(0) /\ avg(i).y = Num(0)

\* two records sampled with threshold 1: bucketSize is 0, the next-bucket
\* range [1, 1) is empty and the call returns
C23_Witness ==
  /\ call.op = "downsampleLTTB" /\ result.kind = "returned" /\ ~result.alias
  /\ Len(input) = 2 /\ call.threshold = 1
  /\ BucketStartOf(2, 3, 1) >= BucketEndOf(2, 3, 1)
  /\ result.picked = <<0, 1, 1>>

\* C24: the keys are resolved only on the sampling path: with len(data) <=
\* threshold (the threshold of the configuration for adaptiveSample)
\* downsampleLTTB and adaptiveSample return data and raise nothing, whatever
\* the fields of the records; an error is raised only for len(data) >
\* threshold.
C24_KeysOnlyWhenSampling ==
  call.op \in {"downsampleLTTB", "adaptiveSample"}
    => LET limit == IF call.op = "downsampleLTTB" THEN call.threshold
                    ELSE Spread(DEFAULT_SAMPLING_CONFIG, call.config)["threshold"]
       IN /\ Len(input) <= limit
               => result.kind = "returned" /\ result.alias
          /\ result.kind = "thrown" => Len(input) > limit

\* two records { label: 'n/a' }, no keys supplied, threshold 3: returned
C24_Witness ==
  /\ call.op = "downsampleLTTB" /\ call.threshold = 3
  /\ call.xKey = NoKey /\ call.yKey = NoKey
  /\ Len(input) = 2
  /\ \A i \in 1..2 : /\ ~HasField(input[i], "time")
                      /\ ~HasField(input[i], "timestamp")
                      /\ ~HasField(input[i], "value")
                      /\ HasField(input[i], "label")
  /\ result.kind = "returned" /\ result.alias

\* C26: for readings with valid timestamps and numeric voltages and a
\* threshold t with len(data) > t >= 3, sampleData(data, t) returns what
\* downsampleLTTB(data, t, 'timestamp', 'voltage') returns: the same
\* elements of data in the same order.
C26_SamplersAgree ==
  (/\ call.op = "sampleData" /\ IsReadings(input)
   /\ Len(input) > call.threshold /\ call.threshold >= 3)
    => \A generic \in {downsampleLTTB(input, call.threshold, "timestamp", "voltage")} :
         /\ result.kind = "returned" /\ generic.kind = "returned"
         /\ result.picked = generic.picked
         /\ result.sampled = generic.sampled
         /\ result.alias = generic.alias

\* five readings sampled to four, the voltage of the third above the others
C26_Witness ==
  /\ call.op = "sampleData" /\ call.threshold = 4
  /\ Len(input) = 5 /\ IsReadings(input)
  /\ Get(input[3], "voltage") = Num(1)
  /\ Get(input[4], "voltage") = Num(0)
  /\ result.kind = "returned" /\ result.picked = <<0, 1, 2, 4>>

\* C27 (as claimed): for len(data) = n > t >= 3, in downsampleLTTB and in
\* sampleData, the range of indices averaged for the next bucket is
\* non-empty for every bucket, and for the final bucket it is the single
\* index n - 1.
C27_NextBucketRange ==
  (/\ call.op \in {"downsampleLTTB", "sampleData"}
   /\ Len(input) > call.threshold /\ call.threshold >= 3)
    => LET n == Len(input)
           t == call.threshold
           nextStart(i) == BucketStartOf(n, t, i + 1)
           nextEnd(i) == IF BucketEndOf(n, t, i + 1) < n
                         THEN BucketEndOf(n, t, i + 1) ELSE n
       IN /\ \A i \in 0..(t - 3) : nextStart(i) < nextEnd(i)
          /\ nextStart(t - 3) = n - 1
          /\ nextEnd(t - 3) = n

\* C25 (as claimed): the charts draw the markers iff the readings they are
\* given are at most 100, whatever the number of points drawn: so do the
\* charts App renders, and the charts of part_006 render the readings they
\* compute the markers for.
C25_DotsFromOriginalLength ==
  chart.mounted
    => /\ chart.showDots
            = (Len(Parsed[displayData(currentData, batteryData).file]) <= 100)
       /\ SampledBatteryCharts(displayData(currentData, batteryData)).kind # "thrown"

(* Properties of the analysis over uploads, resets and completions. *)

\* C28 (as claimed): whenever generatePDFReport saves a report, the analysis
\* in it was computed from the readings the report is generated for, the
\* displayed ones.
C28_ReportAnalysisOfItsReadings ==
  (exported.kind = "called" /\ exported.report.kind = "saved")
    => /\ exported.args.readings = exported.displayed
       /\ exported.args.analysis.source = exported.args.readings

\* C29 (as claimed): once every analysis in flight has settled, the analysis
\* the panel shows and the one last reported through onAnalysisComplete are
\* computed from the readings the panel has now; and the panel shows the
\* loading state as long as the analysis of those readings is pending.
C29_LatestAnalysisWins ==
  panel.mounted
    => /\ (inflight = <<>> /\ PanelView(panel) = "analysis")
            => /\ panel.analysis.source = panel.readings
               /\ currentAnalysis.source = panel.readings
       /\ (\E i \in 1..Len(inflight) : inflight[i].latest)
            => PanelView(panel) = "skeleton"

(* Properties of FileUpload. *)

\* C30 (as claimed): FileUpload processes at most one file at a time: while
\* a read it started is in progress uploading is true, so that no second
\* read is started, and when no read is in progress uploading is false and
\* progress is 0.
C30_OneReadAtATime ==
  /\ Cardinality(LiveReads(upload)) <= 1
  /\ LiveReads(upload) # {} => upload.uploading
  /\ LiveReads(upload) = {} => ~upload.uploading /\ upload.progress = 0

====
